---- MODULE Spec2Model ----
(***************************************************************************)
(* A model of the Dialy mood-diary service (src/moodbot/app):              *)
(*   - the model-output extractor        ai_service._safe_json_loads       *)
(*   - the field normaliser              ai_service.analyze_diary          *)
(*   - the diary service and its store   service.py, database.py           *)
(*                                                                         *)
(* Text is modelled character by character: a Python str is a sequence of  *)
(* characters, and a character is a one-element TLA+ string.  A Hangul     *)
(* syllable is ONE character, written "k:" followed by its romanisation    *)
(* ("k:geung" is the single character U+AE0D), because the module's source *)
(* text is ASCII.  Numbers are fixed-point, in thousandths (0.5 is 500).   *)
(***************************************************************************)
EXTENDS Integers, Sequences, FiniteSets, TLC

VARIABLES
    text,       \* a call of the extractor: the text handed to _safe_json_loads
    loads,      \* a call of the extractor: the outcome of _safe_json_loads(text)
    task,       \* the create_entry request in flight (its position and arguments)
    raw,        \* the text the generative model returned to the request
    analysis,   \* the outcome of the request's analyze_diary call
    rows,       \* table diary_entries, in insertion order
    lastrowid,  \* AUTOINCREMENT counter of diary_entries
    clock,      \* the readings of datetime.now taken so far
    reqs,       \* the requests of the clients, each one a coroutine of the event loop
    users       \* table users, in insertion order

vars == <<text, loads, task, raw, analysis, rows, lastrowid, clock, reqs, users>>

(***************************************************************************)
(* Python values.  Every value is a record of the same shape, so that any  *)
(* two values can be compared: t is the type tag, n the number of an int,  *)
(* float or bool (in thousandths; 0/1000 for False/True), s the characters *)
(* of a str, d the items of a dict in insertion order, l the elements of a *)
(* list.                                                                   *)
(***************************************************************************)
NoneV == [t |-> "none", n |-> 0, s |-> <<>>, d |-> <<>>, l |-> <<>>]
BoolV(b) == [t |-> "bool", n |-> IF b THEN 1000 ELSE 0, s |-> <<>>, d |-> <<>>, l |-> <<>>]
IntV(n) == [t |-> "int", n |-> n, s |-> <<>>, d |-> <<>>, l |-> <<>>]
FloatV(n) == [t |-> "float", n |-> n, s |-> <<>>, d |-> <<>>, l |-> <<>>]
StrV(s) == [t |-> "str", n |-> 0, s |-> s, d |-> <<>>, l |-> <<>>]
DictV(d) == [t |-> "dict", n |-> 0, s |-> <<>>, d |-> d, l |-> <<>>]
ListV(l) == [t |-> "list", n |-> 0, s |-> <<>>, d |-> <<>>, l |-> l]

\* {k: v} and {k1: v1, k2: v2}
Obj1(k, v) == DictV(<<[k |-> k, v |-> v]>>)
Obj2(k1, v1, k2, v2) == DictV(<<[k |-> k1, v |-> v1], [k |-> k2, v |-> v2]>>)

\* An exception: what was raised, and the source line that raised it.
Raised(err, line) == [ok |-> FALSE, err |-> err, line |-> line, v |-> NoneV]
Returned(v) == [ok |-> TRUE, err |-> "", line |-> 0, v |-> v]

\* bool(v)
Truthy(v) ==
    CASE v.t = "none" -> FALSE
      [] v.t = "bool" -> v.n # 0
      [] v.t = "int"  -> v.n # 0
      [] v.t = "float" -> v.n # 0
      [] v.t = "str"  -> v.s # <<>>
      [] v.t = "dict" -> v.d # <<>>
      [] OTHER        -> v.l # <<>>

\* key in d
HasKey(d, k) == \E i \in 1..Len(d.d) : d.d[i].k = k

\* d[k], for a key that is present
Item(d, k) == d.d[CHOOSE i \in 1..Len(d.d) : d.d[i].k = k].v

\* d.get(k, default)
DictGet(d, k, default) == IF HasKey(d, k) THEN Item(d, k) ELSE default

\* d[k] = v: an existing key keeps its position, a new key goes last
DictSet(d, k, v) ==
    IF \E i \in 1..Len(d) : d[i].k = k
    THEN [i \in 1..Len(d) |-> IF d[i].k = k THEN [k |-> k, v |-> v] ELSE d[i]]
    ELSE Append(d, [k |-> k, v |-> v])

(***************************************************************************)
(* str methods                                                             *)
(***************************************************************************)
Whitespace == {" ", "\n", "\t", "\r"}

RECURSIVE LStrip(_)
LStrip(s) ==
    IF s # <<>> /\ Head(s) \in Whitespace THEN LStrip(Tail(s)) ELSE s

RECURSIVE RStrip(_)
RStrip(s) ==
    IF s # <<>> /\ s[Len(s)] \in Whitespace
    THEN RStrip(SubSeq(s, 1, Len(s) - 1))
    ELSE s

\* s.strip()
Strip(s) == RStrip(LStrip(s))

\* s.find(c), counting positions from 1; 0 where Python gives -1
Find(s, c) ==
    IF \E i \in 1..Len(s) : s[i] = c
    THEN CHOOSE i \in 1..Len(s) : s[i] = c /\ \A j \in 1..(i - 1) : s[j] # c
    ELSE 0

\* s[:n]
Prefix(s, n) == SubSeq(s, 1, IF Len(s) < n THEN Len(s) ELSE n)

UpperCase == <<"A", "B", "C", "D", "E", "F", "G", "H", "I", "J", "K", "L", "M",
               "N", "O", "P", "Q", "R", "S", "T", "U", "V", "W", "X", "Y", "Z">>
LowerCase == <<"a", "b", "c", "d", "e", "f", "g", "h", "i", "j", "k", "l", "m",
               "n", "o", "p", "q", "r", "s", "t", "u", "v", "w", "x", "y", "z">>

LowerChar(c) ==
    IF \E i \in 1..26 : UpperCase[i] = c
    THEN LowerCase[CHOOSE i \in 1..26 : UpperCase[i] = c]
    ELSE c

\* s.lower()
Lower(s) == [i \in 1..Len(s) |-> LowerChar(s[i])]

(***************************************************************************)
(* json.loads, for the JSON grammar over the characters the model uses:    *)
(* objects, arrays, strings without escapes, the literals null, true and   *)
(* false, and decimal numbers (an optional minus sign, an integer part     *)
(* without a leading zero, an optional fraction).  A number's value keeps  *)
(* three fractional digits.                                                *)
(***************************************************************************)
Digits == <<"0", "1", "2", "3", "4", "5", "6", "7", "8", "9">>
IsDigit(c) == \E i \in 1..10 : Digits[i] = c
DigitVal(c) == (CHOOSE i \in 1..10 : Digits[i] = c) - 1

ParseFail == [ok |-> FALSE, v |-> NoneV, p |-> 0]
ParseOk(v, p) == [ok |-> TRUE, v |-> v, p |-> p]

At(s, i) == IF i >= 1 /\ i <= Len(s) THEN s[i] ELSE "<eof>"

RECURSIVE SkipWs(_, _)
SkipWs(s, i) == IF At(s, i) \in Whitespace THEN SkipWs(s, i + 1) ELSE i

\* the digits from position i on: [n: their value, c: how many, p: the position after]
RECURSIVE ScanDigits(_, _, _, _)
ScanDigits(s, i, n, c) ==
    IF IsDigit(At(s, i))
    THEN ScanDigits(s, i + 1, n * 10 + DigitVal(s[i]), c + 1)
    ELSE [n |-> n, c |-> c, p |-> i]

\* the fraction digits from position i on, in thousandths
RECURSIVE ScanFrac(_, _, _, _)
ScanFrac(s, i, n, c) ==
    IF IsDigit(At(s, i))
    THEN ScanFrac(s, i + 1,
                  IF c = 0 THEN n + 100 * DigitVal(s[i])
                  ELSE IF c = 1 THEN n + 10 * DigitVal(s[i])
                  ELSE IF c = 2 THEN n + DigitVal(s[i])
                  ELSE n,
                  c + 1)
    ELSE [n |-> n, c |-> c, p |-> i]

ParseNumber(s, i) ==
    LET neg == At(s, i) = "-"
        j == IF neg THEN i + 1 ELSE i
        int == ScanDigits(s, j, 0, 0)
        \* "0" is a whole integer part: in "01" the number ends after the 0
        ip == IF At(s, j) = "0" THEN [n |-> 0, c |-> 1, p |-> j + 1] ELSE int
        frac == IF At(s, ip.p) = "." THEN ScanFrac(s, ip.p + 1, 0, 0)
                ELSE [n |-> 0, c |-> 0, p |-> ip.p]
        hasfrac == At(s, ip.p) = "." /\ frac.c > 0
        mag == ip.n * 1000 + (IF hasfrac THEN frac.n ELSE 0)
    IN  IF ip.c = 0 THEN ParseFail
        ELSE IF hasfrac THEN ParseOk(FloatV(IF neg THEN 0 - mag ELSE mag), frac.p)
        ELSE ParseOk(IntV(IF neg THEN 0 - mag ELSE mag), ip.p)

\* the characters up to the closing quote; i is the position after the opening one
ParseString(s, i) ==
    IF \E j \in i..Len(s) : s[j] = "\""
    THEN LET j == CHOOSE j \in i..Len(s) :
                      s[j] = "\"" /\ \A m \in i..(j - 1) : s[m] # "\""
         IN  ParseOk(StrV(SubSeq(s, i, j - 1)), j + 1)
    ELSE ParseFail

Matches(s, i, word) ==
    i + Len(word) - 1 <= Len(s) /\ SubSeq(s, i, i + Len(word) - 1) = word

RECURSIVE ParseValue(_, _)
RECURSIVE ParseMembers(_, _, _)
RECURSIVE ParseElements(_, _, _)

\* the members of an object from position i (at a key's opening quote) on
ParseMembers(s, i, acc) ==
    IF At(s, i) # "\"" THEN ParseFail
    ELSE LET key == ParseString(s, i + 1) IN
         IF ~key.ok THEN ParseFail
         ELSE LET c == SkipWs(s, key.p) IN
              IF At(s, c) # ":" THEN ParseFail
              ELSE LET val == ParseValue(s, SkipWs(s, c + 1)) IN
                   IF ~val.ok THEN ParseFail
                   ELSE LET e == SkipWs(s, val.p)
                            acc2 == DictSet(acc, key.v.s, val.v)
                        IN  IF At(s, e) = "}" THEN ParseOk(DictV(acc2), e + 1)
                            ELSE IF At(s, e) = ","
                            THEN ParseMembers(s, SkipWs(s, e + 1), acc2)
                            ELSE ParseFail

\* the elements of an array from position i on
ParseElements(s, i, acc) ==
    LET val == ParseValue(s, i) IN
    IF ~val.ok THEN ParseFail
    ELSE LET e == SkipWs(s, val.p)
             acc2 == Append(acc, val.v)
         IN  IF At(s, e) = "]" THEN ParseOk(ListV(acc2), e + 1)
             ELSE IF At(s, e) = ","
             THEN ParseElements(s, SkipWs(s, e + 1), acc2)
             ELSE ParseFail

ParseValue(s, i) ==
    LET c == At(s, i) IN
    CASE c = "\"" -> ParseString(s, i + 1)
      [] c = "{" ->
            LET j == SkipWs(s, i + 1) IN
            IF At(s, j) = "}" THEN ParseOk(DictV(<<>>), j + 1)
            ELSE ParseMembers(s, j, <<>>)
      [] c = "[" ->
            LET j == SkipWs(s, i + 1) IN
            IF At(s, j) = "]" THEN ParseOk(ListV(<<>>), j + 1)
            ELSE ParseElements(s, j, <<>>)
      [] c = "n" ->
            IF Matches(s, i, <<"n", "u", "l", "l">>)
            THEN ParseOk(NoneV, i + 4) ELSE ParseFail
      [] c = "t" ->
            IF Matches(s, i, <<"t", "r", "u", "e">>)
            THEN ParseOk(BoolV(TRUE), i + 4) ELSE ParseFail
      [] c = "f" ->
            IF Matches(s, i, <<"f", "a", "l", "s", "e">>)
            THEN ParseOk(BoolV(FALSE), i + 5) ELSE ParseFail
      [] OTHER -> ParseNumber(s, i)

\* json.loads(s): one value, with nothing but whitespace around it
JsonLoads(s) ==
    LET val == ParseValue(s, SkipWs(s, 1)) IN
    IF val.ok /\ SkipWs(s, val.p) = Len(s) + 1
    THEN Returned(val.v)
    ELSE Raised("JSONDecodeError", 74)

\* A scan that would take the last closing brace of the text as the end
ScanEndGreedy(s, i, count) ==
    LET closing == {k \in 1..Len(s) : k >= i /\ i > 0 /\ s[k] = "}"}
    IN  IF closing = {} THEN 0 ELSE CHOOSE k \in closing : \A m \in closing : m <= k

(***************************************************************************)
(* _safe_json_loads                                                        *)
(***************************************************************************)
\* the loop of lines 58-67: the position of the "}" that brings the count of
\* open braces back to zero, 0 when the text ends first
RECURSIVE ScanEnd(_, _, _)
ScanEnd(s, i, count) ==
    IF i > Len(s) THEN 0
    ELSE IF s[i] = "{" THEN ScanEnd(s, i + 1, count + 1)
    ELSE IF s[i] = "}"
         THEN IF count - 1 = 0 THEN i ELSE ScanEnd(s, i + 1, count - 1)
    ELSE ScanEnd(s, i + 1, count)

SafeJsonLoads(txt) ==
    LET s == Strip(txt)
        start_idx == Find(s, "{")
        end_idx == ScanEnd(s, start_idx, 0)
    IN  IF start_idx = 0 THEN Raised("ValueError", 55)
        ELSE IF end_idx = 0 THEN Raised("ValueError", 70)
        ELSE JsonLoads(SubSeq(s, start_idx, end_idx))

(***************************************************************************)
(* The spelling of numbers (str of an int or a float), and Dumps: a value  *)
(* spelled as JSON text with compact separators, the way SYSTEM_PROMPT     *)
(* asks the generative model to spell its answer.                          *)
(***************************************************************************)
RECURSIVE NatDigits(_)
NatDigits(n) ==
    IF n < 10 THEN <<Digits[n + 1]>>
    ELSE NatDigits(n \div 10) \o <<Digits[(n % 10) + 1]>>

FracDigits(m) ==
    IF m % 100 = 0 THEN <<Digits[(m \div 100) + 1]>>
    ELSE IF m % 10 = 0 THEN <<Digits[(m \div 100) + 1], Digits[((m \div 10) % 10) + 1]>>
    ELSE <<Digits[(m \div 100) + 1], Digits[((m \div 10) % 10) + 1], Digits[(m % 10) + 1]>>

\* the spelling of an int (whole) or of a float (with its fraction)
DumpNum(n, isfloat) ==
    LET mag == IF n < 0 THEN 0 - n ELSE n IN
    (IF n < 0 THEN <<"-">> ELSE <<>>)
        \o NatDigits(mag \div 1000)
        \o (IF isfloat THEN <<".">> \o FracDigits(mag % 1000) ELSE <<>>)

RECURSIVE Dumps(_)
RECURSIVE DumpItems(_, _)
RECURSIVE DumpElements(_, _)

DumpItems(d, i) ==
    IF i > Len(d) THEN <<>>
    ELSE (IF i > 1 THEN <<",">> ELSE <<>>)
             \o <<"\"">> \o d[i].k \o <<"\"", ":">> \o Dumps(d[i].v)
             \o DumpItems(d, i + 1)

DumpElements(l, i) ==
    IF i > Len(l) THEN <<>>
    ELSE (IF i > 1 THEN <<",">> ELSE <<>>) \o Dumps(l[i]) \o DumpElements(l, i + 1)

Dumps(v) ==
    CASE v.t = "none" -> <<"n", "u", "l", "l">>
      [] v.t = "bool" -> IF v.n # 0 THEN <<"t", "r", "u", "e">>
                         ELSE <<"f", "a", "l", "s", "e">>
      [] v.t = "int"  -> DumpNum(v.n, FALSE)
      [] v.t = "float" -> DumpNum(v.n, TRUE)
      [] v.t = "str"  -> <<"\"">> \o v.s \o <<"\"">>
      [] v.t = "dict" -> <<"{">> \o DumpItems(v.d, 1) \o <<"}">>
      [] OTHER        -> <<"[">> \o DumpElements(v.l, 1) \o <<"]">>

(***************************************************************************)
(* The strings of ai_service.py                                            *)
(***************************************************************************)
KeySummary ==
    <<"s", "u", "m", "m", "a", "r", "y">>
KeySentiment ==
    <<"s", "e", "n", "t", "i", "m", "e", "n", "t">>
KeyLabel ==
    <<"l", "a", "b", "e", "l">>
KeyScore ==
    <<"s", "c", "o", "r", "e">>
KeyEmotionScores ==
    <<"e", "m", "o", "t", "i", "o", "n", "_", "s", "c", "o", "r", "e", "s">>
KeyPrimaryEmotion ==
    <<"p", "r", "i", "m", "a", "r", "y", "_", "e", "m", "o", "t", "i", "o",
      "n">>
KeyComfortMessage ==
    <<"c", "o", "m", "f", "o", "r", "t", "_", "m", "e", "s", "s", "a", "g",
      "e">>
KeyTags ==
    <<"t", "a", "g", "s">>

\* the three sentiment labels: positive, neutral, negative
Positive ==
    <<"k:geung", "k:jeong">>
Neutral ==
    <<"k:jung", "k:rip">>
Negative ==
    <<"k:bu", "k:jeong">>

\* the six emotion labels, and the keys of the emotion scores the model is asked for
Happy ==
    <<"k:haeng", "k:bok">>
Sad ==
    <<"k:seul", "k:peum">>
Angry ==
    <<"k:bun", "k:no">>
Anxious ==
    <<"k:bul", "k:an">>
Calm ==
    <<"k:pyeong", "k:on">>
Excited ==
    <<"k:heung", "k:bun">>

\* the six canonical keys of an analysis record
Happiness ==
    <<"h", "a", "p", "p", "i", "n", "e", "s", "s">>
Sadness ==
    <<"s", "a", "d", "n", "e", "s", "s">>
Anger ==
    <<"a", "n", "g", "e", "r">>
Anxiety ==
    <<"a", "n", "x", "i", "e", "t", "y">>
Calmness ==
    <<"c", "a", "l", "m", "n", "e", "s", "s">>
Excitement ==
    <<"e", "x", "c", "i", "t", "e", "m", "e", "n", "t">>

\* the fallback comfort message
DefaultComfort ==
    <<"k:il", "k:gi", "k:reul", " ", "k:jak", "k:seong", "k:hae", "k:ju",
      "k:syeo", "k:seo", " ", "k:gam", "k:sa", "k:hap", "k:ni", "k:da", ".",
      " ", "k:o", "k:neul", " ", "k:ha", "k:ru", "k:do", " ", "k:su", "k:go",
      "k:ha", "k:syeoss", "k:eo", "k:yo", "!">>
\* the two fallback tags
TagDiary ==
    <<"k:il", "k:gi">>
TagAuto ==
    <<"k:ja", "k:dong", "k:bun", "k:seok">>

Ellipsis == <<".", ".", ".">>

WordPositive == <<"p", "o", "s", "i", "t", "i", "v", "e">>
WordNegative == <<"n", "e", "g", "a", "t", "i", "v", "e">>
WordNeutral == <<"n", "e", "u", "t", "r", "a", "l">>

SentimentLabels == {Positive, Neutral, Negative}

\* valid_emotions, and the keys of mapping and kr_mapping, in their order
KrEmotions == <<Happy, Sad, Angry, Anxious, Calm, Excited>>
EnEmotions == <<Happiness, Sadness, Anger, Anxiety, Calmness, Excitement>>
ValidEmotions == {KrEmotions[i] : i \in 1..6}

SummaryLimit == 50
ComfortMinLen == 10
TagsLimit == 5

(***************************************************************************)
(* Python conversions                                                      *)
(***************************************************************************)
\* The k for which round((10 * k + 5) / 1000, 2) rounds up: the double nearest
\* to the decimal lies above it, or is the decimal itself with k odd.
RoundsUp ==
    {0, 2, 3, 5, 6, 8, 9, 11, 13, 16, 19, 22, 25, 26, 27, 31, 32, 33, 37, 38,
     39, 40, 44, 45, 46, 50, 51, 52, 53, 54, 55, 63, 64, 65, 66, 67, 68, 75,
     76, 77, 78, 79, 80, 87, 88, 89, 90, 91, 92, 93}

\* round(v, 2).  A tie outside [0, 1] goes to the even neighbour; both callers
\* clamp such a result to 0 or 1 whichever way it goes.
Round2(v) ==
    LET q == v \div 10
        r == v % 10
        up == IF r # 5 THEN r > 5
              ELSE IF v >= 0 /\ v <= 1000 THEN q \in RoundsUp
              ELSE q % 2 = 1
    IN  IF up THEN (q + 1) * 10 ELSE q * 10

\* float(s) of a str: an optional sign, digits, an optional fraction
FloatOfStr(s, line) ==
    LET c == Strip(s)
        signed == At(c, 1) \in {"-", "+"}
        j == IF signed THEN 2 ELSE 1
        int == ScanDigits(c, j, 0, 0)
        frac == IF At(c, int.p) = "." THEN ScanFrac(c, int.p + 1, 0, 0)
                ELSE [n |-> 0, c |-> 0, p |-> int.p]
        mag == int.n * 1000 + frac.n
    IN  IF int.c + frac.c > 0 /\ frac.p = Len(c) + 1
        THEN Returned(FloatV(IF At(c, 1) = "-" THEN 0 - mag ELSE mag))
        ELSE Raised("ValueError", line)

\* float(v), called on the given source line
PyFloat(v, line) ==
    CASE v.t \in {"int", "float", "bool"} -> Returned(FloatV(v.n))
      [] v.t = "str" -> FloatOfStr(v.s, line)
      [] OTHER -> Raised("TypeError", line)

RECURSIVE PyRepr(_)
RECURSIVE ReprItems(_, _)
RECURSIVE ReprElements(_, _)

ReprItems(d, i) ==
    IF i > Len(d) THEN <<>>
    ELSE (IF i > 1 THEN <<",", " ">> ELSE <<>>)
             \o PyRepr(StrV(d[i].k)) \o <<":", " ">> \o PyRepr(d[i].v)
             \o ReprItems(d, i + 1)

ReprElements(l, i) ==
    IF i > Len(l) THEN <<>>
    ELSE (IF i > 1 THEN <<",", " ">> ELSE <<>>) \o PyRepr(l[i]) \o ReprElements(l, i + 1)

\* repr(v)
PyRepr(v) ==
    CASE v.t = "none" -> <<"N", "o", "n", "e">>
      [] v.t = "bool" -> IF v.n # 0 THEN <<"T", "r", "u", "e">>
                         ELSE <<"F", "a", "l", "s", "e">>
      [] v.t = "int"  -> DumpNum(v.n, FALSE)
      [] v.t = "float" -> DumpNum(v.n, TRUE)
      [] v.t = "str"  ->
            IF (\E i \in 1..Len(v.s) : v.s[i] = "'") /\ (\A i \in 1..Len(v.s) : v.s[i] # "\"")
            THEN <<"\"">> \o v.s \o <<"\"">>
            ELSE <<"'">> \o v.s \o <<"'">>
      [] v.t = "dict" -> <<"{">> \o ReprItems(v.d, 1) \o <<"}">>
      [] OTHER        -> <<"[">> \o ReprElements(v.l, 1) \o <<"]">>

\* str(v)
PyStr(v) == IF v.t = "str" THEN v.s ELSE PyRepr(v)

\* x or default
OrElse(x, default) == IF Truthy(x) THEN x ELSE default

Clamp01(n) == IF n < 0 THEN 0 ELSE IF n > 1000 THEN 1000 ELSE n

(***************************************************************************)
(* _coerce_emotions                                                        *)
(***************************************************************************)
\* one pass of the loop body, lines 42-45, for the key kr_key
CoerceOne(d, kr_key) ==
    LET f == PyFloat(OrElse(DictGet(d, kr_key, FloatV(0)), FloatV(0)), 42) IN
    IF f.ok THEN Returned(FloatV(Round2(Clamp01(f.v.n)))) ELSE f

CoerceEmotions(d) ==
    IF \E i \in 1..6 : ~CoerceOne(d, KrEmotions[i]).ok
    THEN CoerceOne(d, KrEmotions[CHOOSE i \in 1..6 :
            /\ ~CoerceOne(d, KrEmotions[i]).ok
            /\ \A j \in 1..(i - 1) : CoerceOne(d, KrEmotions[j]).ok])
    ELSE Returned(DictV([i \in 1..6 |->
            [k |-> EnEmotions[i], v |-> CoerceOne(d, KrEmotions[i]).v]]))

(***************************************************************************)
(* analyze_diary, lines 153-244.  Each step takes the dict parsed as it    *)
(* stands and gives it back as the step leaves it, or raises.              *)
(***************************************************************************)
\* A summary that would cut a text of exactly SummaryLimit characters too
FallbackSummaryFrom50(diary_text) ==
    IF Len(diary_text) >= SummaryLimit
    THEN Prefix(diary_text, SummaryLimit) \o Ellipsis
    ELSE diary_text

\* diary_text[:50] + "..." if len(diary_text) > 50 else diary_text
FallbackSummary(diary_text) ==
    IF Len(diary_text) > SummaryLimit
    THEN Prefix(diary_text, SummaryLimit) \o Ellipsis
    ELSE diary_text

SentimentDict(label, score) ==
    Obj2(KeyLabel, StrV(label), KeyScore, FloatV(score))

\* the record of lines 160-167, used when _safe_json_loads raised
FallbackParsed(diary_text) ==
    DictV(<<[k |-> KeySummary, v |-> StrV(FallbackSummary(diary_text))],
            [k |-> KeySentiment, v |-> SentimentDict(Neutral, 500)],
            [k |-> KeyEmotionScores,
             v |-> DictV([i \in 1..6 |-> [k |-> KrEmotions[i], v |-> FloatV(200)]])],
            [k |-> KeyPrimaryEmotion, v |-> StrV(Calm)],
            [k |-> KeyComfortMessage, v |-> StrV(DefaultComfort)],
            [k |-> KeyTags, v |-> ListV(<<StrV(TagDiary), StrV(TagAuto)>>)]>>)

\* The steps below take the local variables of analyze_diary, loc.parsed and
\* loc.primary_emotion, and give them back as the step leaves them, or raise.
Locals(parsed) == [parsed |-> parsed, primary_emotion |-> NoneV]

\* lines 170-171
EmotionStep(loc) ==
    LET es == DictGet(loc.parsed, KeyEmotionScores, NoneV)
        Assign(co) ==
            IF ~co.ok THEN co
            ELSE Returned([loc EXCEPT !.parsed =
                              DictV(DictSet(loc.parsed.d, KeyEmotionScores, co.v))])
    IN  IF es.t # "dict" THEN Returned(loc) ELSE Assign(CoerceEmotions(es))

\* label_mapping.get(label.lower(), label)
MapLabel(label) ==
    LET Get(low) ==
            IF low = WordPositive THEN Positive
            ELSE IF low = WordNegative THEN Negative
            ELSE IF low = WordNeutral THEN Neutral
            ELSE label
    IN  Get(Lower(label))

\* lines 174-197
SentimentStep(loc) ==
    LET sent == OrElse(DictGet(loc.parsed, KeySentiment, NoneV), DictV(<<>>))
        lab == OrElse(DictGet(sent, KeyLabel, NoneV), StrV(Neutral))
        label == IF sent.t = "str" THEN Strip(sent.s)
                 ELSE IF sent.t = "dict" THEN Strip(lab.s)
                 ELSE Neutral
        Final(mapped) == IF mapped \in SentimentLabels THEN mapped ELSE Neutral
        Assign(f) ==
            IF ~f.ok THEN f
            ELSE Returned([loc EXCEPT !.parsed =
                     DictV(DictSet(loc.parsed.d, KeySentiment,
                                   SentimentDict(Final(MapLabel(label)),
                                                 Clamp01(Round2(f.v.n)))))])
    IN  IF sent.t = "dict" /\ lab.t # "str" THEN Raised("AttributeError", 179)
        ELSE IF sent.t # "dict" THEN Raised("AttributeError", 195)
        ELSE Assign(PyFloat(OrElse(DictGet(sent, KeyScore, NoneV), FloatV(500)), 195))

\* max(emotion_scores_kr, key=emotion_scores_kr.get): the loop keeps the first
\* of the largest; idx lists the emotions that have a score, best is the
\* position kept so far
RECURSIVE MaxLoop(_, _, _, _)
MaxLoop(es, idx, i, best) ==
    IF i > Len(idx) THEN best
    ELSE IF Item(es, EnEmotions[idx[i]]).n > Item(es, EnEmotions[best]).n
         THEN MaxLoop(es, idx, i + 1, idx[i])
         ELSE MaxLoop(es, idx, i + 1, best)

\* lines 200-223: the local primary_emotion
PrimaryEmotionStep(loc) ==
    LET p == OrElse(DictGet(loc.parsed, KeyPrimaryEmotion, NoneV), StrV(<<>>))
        es == DictGet(loc.parsed, KeyEmotionScores, NoneV)
        Derive(idx) ==
            IF es.t = "dict" /\ idx # <<>> THEN KrEmotions[MaxLoop(es, idx, 2, idx[1])]
            ELSE Calm
        Assign(primary_emotion) ==
            Returned([loc EXCEPT !.primary_emotion =
                StrV(IF primary_emotion \in ValidEmotions THEN primary_emotion
                     ELSE Derive(SelectSeq(<<1, 2, 3, 4, 5, 6>>,
                                           LAMBDA i : HasKey(es, EnEmotions[i]))))])
    IN  IF p.t # "str" THEN Raised("AttributeError", 200) ELSE Assign(Strip(p.s))

\* lines 226-229
ComfortStep(loc) ==
    LET c == OrElse(DictGet(loc.parsed, KeyComfortMessage, NoneV), StrV(<<>>))
        Assign(cm) ==
            Returned([loc EXCEPT !.parsed =
                DictV(DictSet(loc.parsed.d, KeyComfortMessage,
                              StrV(IF cm = <<>> \/ Len(cm) < ComfortMinLen
                                   THEN DefaultComfort ELSE cm)))])
    IN  IF c.t # "str" THEN Raised("AttributeError", 226) ELSE Assign(Strip(c.s))

\* lines 232-235
TagsStep(loc) ==
    LET t == OrElse(DictGet(loc.parsed, KeyTags, NoneV), ListV(<<>>))
        Assign(tags) ==
            Returned([loc EXCEPT !.parsed =
                DictV(DictSet(loc.parsed.d, KeyTags,
                              ListV(Prefix([i \in 1..Len(tags) |-> StrV(PyStr(tags[i]))],
                                           TagsLimit))))])
    IN  Assign(IF t.t # "list" THEN <<StrV(PyStr(t))>> ELSE t.l)

\* lines 237-244
ReturnStep(loc, diary_text) ==
    Returned(DictV(
        <<[k |-> KeySummary,
           v |-> DictGet(loc.parsed, KeySummary, StrV(FallbackSummary(diary_text)))],
          [k |-> KeySentiment, v |-> Item(loc.parsed, KeySentiment)],
          [k |-> KeyEmotionScores, v |-> DictGet(loc.parsed, KeyEmotionScores, DictV(<<>>))],
          [k |-> KeyPrimaryEmotion, v |-> loc.primary_emotion],
          [k |-> KeyComfortMessage, v |-> Item(loc.parsed, KeyComfortMessage)],
          [k |-> KeyTags, v |-> Item(loc.parsed, KeyTags)]>>))

\* lines 169-244: the normalisation of the dict parsed
Normalize(parsed, diary_text) ==
    LET Step8(r) == IF r.ok THEN ReturnStep(r.v, diary_text) ELSE r
        Step7(r) == Step8(IF r.ok THEN TagsStep(r.v) ELSE r)
        Step6(r) == Step7(IF r.ok THEN ComfortStep(r.v) ELSE r)
        Step5(r) == Step6(IF r.ok THEN PrimaryEmotionStep(r.v) ELSE r)
        Step4(r) == Step5(IF r.ok THEN SentimentStep(r.v) ELSE r)
    IN  Step4(EmotionStep(Locals(parsed)))

\* lines 153-244 of analyze_diary, from the text raw_text the model returned
AnalyzeDiary(diary_text, raw_text) ==
    LET Rest(parsed, extracted) ==
            [extracted |-> extracted, parsed |-> parsed,
             res |-> Normalize(parsed, diary_text)]
        Except(ext) == Rest(IF ext.ok THEN ext.v ELSE FallbackParsed(diary_text), ext.ok)
    IN  Except(SafeJsonLoads(raw_text))

\* all sequences over S of length at most n
SeqsUpTo(S, n) == UNION {[1..k -> S] : k \in 0..n}

(***************************************************************************)
(* DiaryStorage (database.py) and DiaryService.create_entry (service.py)   *)
(***************************************************************************)
DefaultUserId == 1

\* What SQLite stores in a TEXT NOT NULL column for the Python value bound to it
StoreText(v, line) ==
    CASE v.t = "str" -> Returned(v)
      [] v.t \in {"int", "float"} -> Returned(StrV(PyRepr(v)))
      [] v.t = "bool" -> Returned(StrV(DumpNum(v.n, FALSE)))
      [] v.t = "none" -> Raised("IntegrityError", line)
      [] OTHER -> Raised("InterfaceError", line)

\* EmotionScores(**analysis["emotion_scores"]): the six fields, 0.0 by default
EmotionScores(es, line) ==
    IF es.t # "dict" THEN Raised("TypeError", line)
    ELSE IF \E i \in 1..Len(es.d) : es.d[i].k \notin {EnEmotions[j] : j \in 1..6}
         THEN Raised("TypeError", line)
    ELSE Returned(ListV([i \in 1..6 |-> DictGet(es, EnEmotions[i], FloatV(0))]))

Conversation(role, message, timestamp) ==
    [role |-> role, message |-> message, timestamp |-> timestamp]

\* the id of INTEGER PRIMARY KEY without AUTOINCREMENT: one more than the
\* largest id in the table
RowIdAfterLargest(table, seq) ==
    IF table = <<>> THEN 1
    ELSE 1 + (CHOOSE m \in {table[i].id : i \in 1..Len(table)} :
                  \A i \in 1..Len(table) : table[i].id <= m)

\* the id the INSERT gives to a new row, AUTOINCREMENT: one more than the
\* largest id ever given in the table, which sqlite_sequence keeps
NextRowId(table, seq) == seq + 1

\* DiaryStorage.add after DiaryStorage.create_entry: the row INSERTed for the
\* analysis a, with id rowid; the entry's two timestamps are two readings of
\* the clock, the first of them now
NewRow(rowid, txt, a, emotions, summary, user_id, now) ==
    [id |-> rowid,
     text |-> txt,
     summary |-> summary,
     sentiment_label |-> Item(Item(a, KeySentiment), KeyLabel).s,
     sentiment_score |-> Item(Item(a, KeySentiment), KeyScore).n,
     emotions |-> [i \in 1..6 |-> emotions[i].n],
     primary_emotion |-> Item(a, KeyPrimaryEmotion).s,
     comfort_message |-> Item(a, KeyComfortMessage).s,
     tags |-> [i \in 1..Len(Item(a, KeyTags).l) |-> Item(a, KeyTags).l[i].s],
     created_at |-> now,
     updated_at |-> now + 1,
     conversations |-> <<>>,
     user_id |-> user_id]

\* update_conversations as an INSERT OR REPLACE: a row that is not there is made
ReplaceConversations(table, entry_id, conversations, updated_at) ==
    IF \E i \in 1..Len(table) : table[i].id = entry_id
    THEN [i \in 1..Len(table) |->
             IF table[i].id = entry_id
             THEN [table[i] EXCEPT !.conversations = conversations,
                                   !.updated_at = updated_at]
             ELSE table[i]]
    ELSE Append(table,
                [id |-> entry_id, text |-> <<>>, summary |-> <<>>,
                 sentiment_label |-> Neutral, sentiment_score |-> 500,
                 emotions |-> [i \in 1..6 |-> 0], primary_emotion |-> <<>>,
                 comfort_message |-> <<>>, tags |-> <<>>,
                 created_at |-> updated_at, updated_at |-> updated_at,
                 conversations |-> conversations, user_id |-> DefaultUserId])

\* DiaryStorage.update_conversations: UPDATE ... WHERE id = entry_id
UpdateConversations(table, entry_id, conversations, updated_at) ==
    [i \in 1..Len(table) |->
        IF table[i].id = entry_id
        THEN [table[i] EXCEPT !.conversations = conversations, !.updated_at = updated_at]
        ELSE table[i]]

\* calls counts the runs of model.generate for the request, caught is the
\* exception _generate_text caught, body and status are the JSON body and the
\* HTTP status of a request to /ai/diary
IdleTask ==
    [pc |-> "idle", text |-> <<>>, user_id |-> 0, err |-> "", line |-> 0, id |-> 0,
     calls |-> 0, caught |-> "", body |-> NoneV, status |-> 0]
NoAnalysis == [extracted |-> FALSE, parsed |-> NoneV, res |-> Raised("", 0)]

\* DiaryService.create_entry up to its await: analyze_diary builds the prompt
\* and hands _generate_text to the executor
CreateEntry(txt, user_id) ==
    /\ task.pc = "idle"
    /\ task' = [task EXCEPT !.pc = "awaiting_model", !.text = txt, !.user_id = user_id]
    /\ UNCHANGED <<text, loads, raw, analysis, rows, lastrowid, clock, reqs, users>>

\* _generate_text on the worker thread: the model gives back some text, stripped
GenerateText(output) ==
    /\ task.pc = "awaiting_model"
    /\ raw' = Strip(output)
    /\ task' = [task EXCEPT !.pc = "model_done", !.calls = @ + 1]
    /\ UNCHANGED <<text, loads, analysis, rows, lastrowid, clock, reqs, users>>

\* _generate_text: model.generate raises a RuntimeError while sampling, and
\* the except clause of line 124 goes on to greedy decoding
SamplingFails ==
    /\ task.pc = "awaiting_model"
    /\ task' = [task EXCEPT !.pc = "retrying", !.calls = @ + 1, !.caught = "RuntimeError"]
    /\ UNCHANGED <<text, loads, raw, analysis, rows, lastrowid, clock, reqs, users>>

\* _generate_text, lines 127-138: the second model.generate gives back some text
GenerateGreedy(output) ==
    /\ task.pc = "retrying"
    /\ raw' = Strip(output)
    /\ task' = [task EXCEPT !.pc = "model_done", !.calls = @ + 1]
    /\ UNCHANGED <<text, loads, analysis, rows, lastrowid, clock, reqs, users>>

\* _generate_text raises: model.generate raised something that is no
\* RuntimeError while sampling (line 107), or anything in the greedy decoding
\* (line 128).  Nothing catches it in analyze_diary (line 151).
GenerateRaises(err) ==
    /\ \/ task.pc = "awaiting_model" /\ err # "RuntimeError"
       \/ task.pc = "retrying"
    /\ task' = [task EXCEPT !.pc = "model_raised", !.calls = @ + 1, !.err = err,
                            !.line = IF task.pc = "retrying" THEN 128 ELSE 107]
    /\ UNCHANGED <<text, loads, raw, analysis, rows, lastrowid, clock, reqs, users>>

\* The rest of create_entry once the executor's result is in: the rest of
\* analyze_diary, then the INSERT and, for a non-empty comfort message, the
\* UPDATE of the conversations.  An exception leaves the request failed.
CreateEntryResume ==
    /\ task.pc = "model_done"
    /\ analysis' = AnalyzeDiary(task.text, raw)
    /\ LET Fail(failure) ==
               /\ task' = [task EXCEPT !.pc = "failed", !.err = failure.err,
                                       !.line = failure.line]
               /\ UNCHANGED <<rows, lastrowid, clock>>
           Save(row) ==
               /\ rows' = IF row.comfort_message # <<>>
                          THEN UpdateConversations(Append(rows, row), row.id,
                                   <<Conversation("assistant", row.comfort_message, clock + 3)>>,
                                   clock + 4)
                          ELSE Append(rows, row)
               /\ lastrowid' = row.id
               /\ clock' = IF row.comfort_message # <<>> THEN clock + 4 ELSE clock + 2
               /\ task' = [task EXCEPT !.pc = "done", !.id = row.id]
           Add(a, es, summary) ==
               IF ~es.ok THEN Fail(es)
               ELSE IF ~summary.ok THEN Fail(summary)
               ELSE Save(NewRow(NextRowId(rows, lastrowid), task.text, a, es.v.l, summary.v.s,
                                task.user_id, clock + 1))
           Persist(res) ==
               IF ~res.ok THEN Fail(res)
               ELSE Add(res.v, EmotionScores(Item(res.v, KeyEmotionScores), 34),
                        StoreText(Item(res.v, KeySummary), 133))
       IN  Persist(analysis'.res)
    /\ UNCHANGED <<text, loads, raw, reqs, users>>

(***************************************************************************)
(* POST /ai/diary (routes.py)                                              *)
(***************************************************************************)
KeyText == <<"t", "e", "x", "t">>

\* what the except clauses of lines 184-188 make of an exception
StatusOf(err) == IF err = "HTTPStatusError" THEN 502 ELSE 500

\* generate_diary_reply up to its await of analyze_diary, for the JSON body
\* data.  The HTTPException of line 178 is raised inside the try statement.
GenerateDiaryReply(data) ==
    /\ task.pc = "idle"
    /\ LET Answer(err, line) ==
               task' = [task EXCEPT !.pc = "failed", !.body = data, !.err = err,
                                    !.line = line, !.status = StatusOf(err)]
           Analyze(diary_text) ==
               IF ~Truthy(diary_text) THEN Answer("HTTPException", 178)
               ELSE IF diary_text.t # "str" THEN Answer("AttributeError", 177)
               ELSE IF Strip(diary_text.s) = <<>> THEN Answer("HTTPException", 178)
               ELSE task' = [task EXCEPT !.pc = "awaiting_model", !.body = data,
                                         !.text = Strip(diary_text.s)]
           Read(d) ==
               IF d.t # "dict" THEN Answer("AttributeError", 171)
               ELSE Analyze(DictGet(d, KeyText, NoneV))
       IN  Read(OrElse(data, DictV(<<>>)))
    /\ UNCHANGED <<text, loads, raw, analysis, rows, lastrowid, clock, reqs, users>>

\* generate_diary_reply once _generate_text has returned or raised: the rest
\* of analyze_diary and the response
GenerateDiaryReplyResume ==
    /\ task.pc \in {"model_done", "model_raised"}
    /\ analysis' = IF task.pc = "model_done" THEN AnalyzeDiary(task.text, raw) ELSE analysis
    /\ task' = IF task.pc = "model_raised"
               THEN [task EXCEPT !.pc = "failed", !.status = StatusOf(task.err)]
               ELSE IF analysis'.res.ok
               THEN [task EXCEPT !.pc = "done", !.status = 200]
               ELSE [task EXCEPT !.pc = "failed", !.err = analysis'.res.err,
                                 !.line = analysis'.res.line,
                                 !.status = StatusOf(analysis'.res.err)]
    /\ UNCHANGED <<text, loads, raw, rows, lastrowid, clock, reqs, users>>

(***************************************************************************)
(* DiaryStorage: the reads, UPDATE and DELETE (database.py)                *)
(***************************************************************************)
\* user_id=None
NoUser == 0

\* _row_to_entry: the row as a DiaryEntry, its sentiment label put right
RowToEntry(row) ==
    LET Checked(label) == IF label \in SentimentLabels THEN label ELSE Neutral
    IN  [row EXCEPT !.sentiment_label =
            Checked(MapLabel(Strip(IF row.sentiment_label = <<>> THEN Neutral
                                   ELSE row.sentiment_label)))]

\* get_entry without the id in its WHERE clause: the first row there is
GetFirstEntry(table, entry_id, user_id) ==
    LET Fetch(found) == IF found = <<>> THEN <<>> ELSE <<RowToEntry(found[1])>>
    IN  Fetch(SelectSeq(table, LAMBDA row : user_id = NoUser \/ row.user_id = user_id))

\* get_entry: the entry in a sequence of its own, or the empty sequence for None
\* the entry of the id, whoever owns it
GetEntryOfAnyone(table, entry_id, user_id) ==
    LET Fetch(found) == IF found = <<>> THEN <<>> ELSE <<RowToEntry(found[1])>>
    IN  Fetch(SelectSeq(table, LAMBDA row : row.id = entry_id))

GetEntry(table, entry_id, user_id) ==
    LET Fetch(found) == IF found = <<>> THEN <<>> ELSE <<RowToEntry(found[1])>>
    IN  Fetch(SelectSeq(table, LAMBDA row :
                  row.id = entry_id /\ (user_id = NoUser \/ row.user_id = user_id)))

\* ORDER BY created_at DESC: the latest row first, then the others in order
RECURSIVE OrderByCreatedDesc(_)
OrderByCreatedDesc(found) ==
    IF found = <<>> THEN <<>>
    ELSE LET Take(m) ==
                 <<found[m]>> \o OrderByCreatedDesc(
                     SubSeq(found, 1, m - 1) \o SubSeq(found, m + 1, Len(found)))
         IN  Take(CHOOSE m \in 1..Len(found) :
                      /\ \A k \in 1..Len(found) : found[k].created_at <= found[m].created_at
                      /\ \A k \in 1..(m - 1) : found[k].created_at < found[m].created_at)

\* list_entries without its WHERE clause
ListEntriesOfAll(table, user_id) ==
    LET Entries(found) == [i \in 1..Len(found) |-> RowToEntry(found[i])]
    IN  Entries(OrderByCreatedDesc(table))

\* list_entries
ListEntries(table, user_id) ==
    LET Entries(found) == [i \in 1..Len(found) |-> RowToEntry(found[i])]
    IN  Entries(OrderByCreatedDesc(
            SelectSeq(table, LAMBDA row : user_id = NoUser \/ row.user_id = user_id)))

\* update_entry as a REPLACE of the whole row: the columns it does not name
\* go back to their defaults
ReplaceRow(table, entry_id, txt, a, emotions, summary, updated_at) ==
    [i \in 1..Len(table) |->
        IF table[i].id = entry_id
        THEN [table[i] EXCEPT
                 !.text = txt,
                 !.summary = summary,
                 !.sentiment_label = Item(Item(a, KeySentiment), KeyLabel).s,
                 !.sentiment_score = Item(Item(a, KeySentiment), KeyScore).n,
                 !.emotions = [j \in 1..6 |-> emotions[j].n],
                 !.primary_emotion = Item(a, KeyPrimaryEmotion).s,
                 !.tags = [j \in 1..Len(Item(a, KeyTags).l) |-> Item(a, KeyTags).l[j].s],
                 !.comfort_message = <<>>,
                 !.conversations = <<>>,
                 !.updated_at = updated_at]
        ELSE table[i]]

\* the UPDATE of update_entry without its WHERE clause
UpdateEveryRow(table, entry_id, txt, a, emotions, summary, updated_at) ==
    [i \in 1..Len(table) |->
        [table[i] EXCEPT
            !.text = txt,
            !.summary = summary,
            !.sentiment_label = Item(Item(a, KeySentiment), KeyLabel).s,
            !.sentiment_score = Item(Item(a, KeySentiment), KeyScore).n,
            !.emotions = [j \in 1..6 |-> emotions[j].n],
            !.primary_emotion = Item(a, KeyPrimaryEmotion).s,
            !.tags = [j \in 1..Len(Item(a, KeyTags).l) |-> Item(a, KeyTags).l[j].s],
            !.updated_at = updated_at]]

\* the UPDATE of update_entry: the text and the analysis fields of the row
\* entry_id, and updated_at
UpdateRow(table, entry_id, txt, a, emotions, summary, updated_at) ==
    [i \in 1..Len(table) |->
        IF table[i].id = entry_id
        THEN [table[i] EXCEPT
                 !.text = txt,
                 !.summary = summary,
                 !.sentiment_label = Item(Item(a, KeySentiment), KeyLabel).s,
                 !.sentiment_score = Item(Item(a, KeySentiment), KeyScore).n,
                 !.emotions = [j \in 1..6 |-> emotions[j].n],
                 !.primary_emotion = Item(a, KeyPrimaryEmotion).s,
                 !.tags = [j \in 1..Len(Item(a, KeyTags).l) |-> Item(a, KeyTags).l[j].s],
                 !.updated_at = updated_at]
        ELSE table[i]]

\* what delete_entry returns: cursor.rowcount > 0
DeleteReturns(table, entry_id) == \E i \in 1..Len(table) : table[i].id = entry_id

\* delete_entry: DELETE ... WHERE id = entry_id
DeleteRow(table, entry_id) == SelectSeq(table, LAMBDA row : row.id # entry_id)

(***************************************************************************)
(* DiaryService: the statistics (service.py)                               *)
(***************************************************************************)
\* sentiment_counts over the entries of every user, whatever the filter
SentimentCountsOfAll(table, user_id) ==
    LET Count(entries) ==
            [label \in SentimentLabels |->
                Cardinality({i \in 1..Len(entries) : entries[i].sentiment_label = label})]
    IN  Count(ListEntries(table, NoUser))

\* sentiment_counts: the counts of the three labels, as label -> count
SentimentCounts(table, user_id) ==
    LET Count(entries) ==
            [label \in SentimentLabels |->
                Cardinality({i \in 1..Len(entries) : entries[i].sentiment_label = label})]
    IN  Count(ListEntries(table, user_id))

RECURSIVE SumScores(_, _, _)
SumScores(entries, j, i) ==
    IF i > Len(entries) THEN 0 ELSE entries[i].emotions[j] + SumScores(entries, j, i + 1)

\* round(v, 2) for the sum v, the division by total left out
RoundedSums(v, total) ==
    LET Pick(q, twice) ==
            IF twice < 10 THEN {q * 10}
            ELSE IF twice > 10 THEN {(q + 1) * 10}
            ELSE {q * 10, (q + 1) * 10}
    IN  Pick(v \div 10, 2 * (v % 10))

\* round(v / total, 2) for the sum v: the hundredth next to the quotient.  When
\* the quotient is half-way between two hundredths the binary floats decide,
\* and both are possible.
RoundedMeans(v, total) ==
    LET Pick(q, twice) ==
            IF twice < 10 * total THEN {q * 10}
            ELSE IF twice > 10 * total THEN {(q + 1) * 10}
            ELSE {q * 10, (q + 1) * 10}
    IN  Pick(v \div (10 * total), 2 * (v % (10 * total)))

\* emotion_distribution: for each emotion, in the order of EnEmotions, the
\* values its mean can come out as
EmotionDistribution(table, user_id) ==
    LET Means(entries) ==
            [j \in 1..6 |->
                IF entries = <<>> THEN {0}
                ELSE RoundedMeans(SumScores(entries, j, 1), Len(entries))]
    IN  Means(ListEntries(table, user_id))

(***************************************************************************)
(* DiaryService with several requests in flight.  A request is a coroutine *)
(* of the one event loop: it runs alone from its call to its await of the  *)
(* model, and alone again from the model's answer to its return; between   *)
(* the two the other requests run.  delete_entry has no await.             *)
(***************************************************************************)
Requests == {"r1", "r2"}

IdleReq ==
    [op |-> "none", pc |-> "idle", id |-> 0, text |-> <<>>, user_id |-> 0,
     read |-> <<>>, log |-> <<>>, ret |-> <<>>, analysis |-> NoneV, err |-> "", line |-> 0,
     status |-> 0, username |-> <<>>, email |-> <<>>, cookie |-> <<>>, token |-> <<>>,
     url |-> ""]

\* a request can be taken by a client: none is running in it
Free(r) == reqs[r].pc \in {"idle", "done", "none", "failed"}

\* DiaryService.create_entry up to the await of line 28
SvcCreate(r, txt, user_id) ==
    /\ Free(r)
    /\ reqs' = [reqs EXCEPT ![r] =
                   [IdleReq EXCEPT !.op = "create", !.pc = "awaiting", !.text = txt,
                                   !.user_id = user_id]]
    /\ UNCHANGED <<text, loads, task, raw, analysis, rows, lastrowid, clock, users>>

\* DiaryService.create_entry from the model's answer on, lines 28-56
SvcCreateResume(r, output) ==
    /\ reqs[r].op = "create" /\ reqs[r].pc = "awaiting"
    /\ LET Fail(failure) ==
               /\ reqs' = [reqs EXCEPT ![r].pc = "failed", ![r].err = failure.err,
                                       ![r].line = failure.line]
               /\ UNCHANGED <<rows, lastrowid, clock>>
           Save(row, first, a) ==
               /\ rows' = UpdateConversations(Append(rows, row), row.id, <<first>>, clock + 4)
               /\ lastrowid' = row.id
               /\ clock' = clock + 4
               /\ reqs' = [reqs EXCEPT ![r].pc = "done", ![r].id = row.id,
                                       ![r].analysis = a,
                                       ![r].ret = <<[row EXCEPT !.conversations = <<first>>]>>]
           Add(a, es, summary) ==
               IF ~es.ok THEN Fail(es)
               ELSE IF ~summary.ok THEN Fail(summary)
               ELSE Save(NewRow(NextRowId(rows, lastrowid), reqs[r].text, a, es.v.l, summary.v.s,
                                reqs[r].user_id, clock + 1),
                         Conversation("assistant", Item(a, KeyComfortMessage).s, clock + 3),
                         a)
           Persist(res) ==
               IF ~res.ok THEN Fail(res)
               ELSE Add(res.v, EmotionScores(Item(res.v, KeyEmotionScores), 34),
                        StoreText(Item(res.v, KeySummary), 133))
       IN  Persist(AnalyzeDiary(reqs[r].text, Strip(output)).res)
    /\ UNCHANGED <<text, loads, task, raw, analysis, users>>

\* DiaryService.update_entry up to the await of line 75
SvcUpdate(r, entry_id, txt) ==
    /\ Free(r)
    /\ reqs' = [reqs EXCEPT ![r] =
                   IF GetEntry(rows, entry_id, NoUser) = <<>>
                   THEN [IdleReq EXCEPT !.op = "update", !.pc = "none", !.id = entry_id,
                                        !.text = txt]
                   ELSE [IdleReq EXCEPT !.op = "update", !.pc = "awaiting", !.id = entry_id,
                                        !.text = txt]]
    /\ UNCHANGED <<text, loads, task, raw, analysis, rows, lastrowid, clock, users>>

\* DiaryService.update_entry from the model's answer on, lines 75-85, with
\* DiaryStorage.update_entry
SvcUpdateResume(r, output) ==
    /\ reqs[r].op = "update" /\ reqs[r].pc = "awaiting"
    /\ LET Fail(failure) ==
               /\ reqs' = [reqs EXCEPT ![r].pc = "failed", ![r].err = failure.err,
                                       ![r].line = failure.line]
               /\ UNCHANGED <<rows, clock>>
           Gone ==
               /\ reqs' = [reqs EXCEPT ![r].pc = "none"]
               /\ UNCHANGED <<rows, clock>>
           Save(table, a) ==
               /\ rows' = table
               /\ clock' = clock + 1
               /\ reqs' = [reqs EXCEPT ![r].pc = "done", ![r].analysis = a,
                                       ![r].ret = GetEntry(table, reqs[r].id, NoUser)]
           Store(a, es, summary) ==
               IF ~es.ok THEN Fail(es)
               ELSE IF GetEntry(rows, reqs[r].id, NoUser) = <<>> THEN Gone
               ELSE IF ~summary.ok THEN Fail(summary)
               ELSE Save(UpdateRow(rows, reqs[r].id, reqs[r].text, a, es.v.l, summary.v.s,
                                   clock + 1),
                         a)
           Persist(res) ==
               IF ~res.ok THEN Fail(res)
               ELSE Store(res.v, EmotionScores(Item(res.v, KeyEmotionScores), 82),
                          StoreText(Item(res.v, KeySummary), 230))
       IN  Persist(AnalyzeDiary(reqs[r].text, Strip(output)).res)
    /\ UNCHANGED <<text, loads, task, raw, analysis, lastrowid, users>>

\* reply_to_ai with a write of its own for the user turn before the await
SvcReplyInTwoWrites(r, entry_id, user_message) ==
    /\ Free(r)
    /\ LET Begin(entry) ==
               IF entry = <<>>
               THEN /\ reqs' = [reqs EXCEPT ![r] =
                                   [IdleReq EXCEPT !.op = "reply", !.pc = "none",
                                                   !.id = entry_id, !.text = user_message]]
                    /\ UNCHANGED <<clock, rows>>
               ELSE /\ reqs' = [reqs EXCEPT ![r] =
                                   [IdleReq EXCEPT
                                       !.op = "reply", !.pc = "awaiting", !.id = entry_id,
                                       !.text = user_message,
                                       !.read = entry[1].conversations,
                                       !.log = Append(entry[1].conversations,
                                                      Conversation("user", user_message,
                                                                   clock + 1))]]
                    /\ rows' = UpdateConversations(
                                   rows, entry_id,
                                   Append(entry[1].conversations,
                                          Conversation("user", user_message, clock + 1)),
                                   clock + 1)
                    /\ clock' = clock + 1
       IN  Begin(GetEntry(rows, entry_id, NoUser))
    /\ UNCHANGED <<text, loads, task, raw, analysis, lastrowid, users>>

\* DiaryService.reply_to_ai up to the await of line 117
SvcReply(r, entry_id, user_message) ==
    /\ Free(r)
    /\ LET Begin(entry) ==
               IF entry = <<>>
               THEN /\ reqs' = [reqs EXCEPT ![r] =
                                   [IdleReq EXCEPT !.op = "reply", !.pc = "none",
                                                   !.id = entry_id, !.text = user_message]]
                    /\ UNCHANGED clock
               ELSE /\ reqs' = [reqs EXCEPT ![r] =
                                   [IdleReq EXCEPT
                                       !.op = "reply", !.pc = "awaiting", !.id = entry_id,
                                       !.text = user_message,
                                       !.read = entry[1].conversations,
                                       !.log = Append(entry[1].conversations,
                                                      Conversation("user", user_message,
                                                                   clock + 1))]]
                    /\ clock' = clock + 1
       IN  Begin(GetEntry(rows, entry_id, NoUser))
    /\ UNCHANGED <<text, loads, task, raw, analysis, rows, lastrowid, users>>

\* DiaryService.reply_to_ai from the model's answer on, lines 117-134
SvcReplyResume(r, output) ==
    /\ reqs[r].op = "reply" /\ reqs[r].pc = "awaiting"
    /\ LET Finish(conversations) ==
               /\ rows' = UpdateConversations(rows, reqs[r].id, conversations, clock + 2)
               /\ reqs' = [reqs EXCEPT ![r].pc = "done", ![r].log = conversations]
       IN  Finish(Append(reqs[r].log, Conversation("assistant", Strip(output), clock + 1)))
    /\ clock' = clock + 2
    /\ UNCHANGED <<text, loads, task, raw, analysis, lastrowid, users>>

\* DiaryService.delete_entry
SvcDelete(entry_id) ==
    /\ rows' = DeleteRow(rows, entry_id)
    /\ UNCHANGED <<text, loads, task, raw, analysis, lastrowid, clock, reqs, users>>

(***************************************************************************)
(* Users, access tokens and the routes in front of the service             *)
(* (user_db.py, auth.py, auth_routes.py, routes.py, web.py).  A token is   *)
(* the payload it carries and whether jwt.decode accepts it (signature and *)
(* expiry); a cookie jar holds no token or one.                            *)
(***************************************************************************)
UsernameMinLen == 3
UsernameMaxLen == 50
PasswordMinLen == 6
TextMinLen == 1
IndexLimit == 5
TimelineLimit == 7

KeyMessage == <<"m", "e", "s", "s", "a", "g", "e">>

\* int(s) of a text of decimal digits
RECURSIVE IntOfDigits(_)
IntOfDigits(s) ==
    IF Len(s) = 0 THEN 0
    ELSE 10 * IntOfDigits(SubSeq(s, 1, Len(s) - 1)) + DigitVal(s[Len(s)])

\* create_access_token(data={"sub": str(user.id), ...})
CreateAccessToken(user_id) == [valid |-> TRUE, sub |-> NatDigits(user_id)]

\* decode_access_token: the payload, or <<>> for None
DecodeAccessToken(token) == IF token.valid THEN <<[sub |-> token.sub]>> ELSE <<>>

\* get_user_id_from_cookie; NoUser stands for None
GetUserIdFromCookie(cookie) ==
    LET Sub(payload) ==
            IF payload = <<>> THEN NoUser
            ELSE IF payload[1].sub = <<>> THEN NoUser
            ELSE IF \A i \in 1..Len(payload[1].sub) : IsDigit(payload[1].sub[i])
                 THEN IntOfDigits(payload[1].sub)
                 ELSE NoUser
    IN  IF cookie = <<>> THEN NoUser ELSE Sub(DecodeAccessToken(cookie[1]))

\* get_user_by_username and get_user_by_email: <<>> for None
GetUserByUsername(table, username) ==
    SelectSeq(table, LAMBDA user : user.username = username)

FindNoUser(table, email) == <<>>

GetUserByEmail(table, email) == SelectSeq(table, LAMBDA user : user.email = email)

\* create_user: the INSERT under the UNIQUE constraints of table users
CreateUser(table, username, email, password) ==
    IF \E i \in 1..Len(table) : table[i].username = username \/ table[i].email = email
    THEN [ok |-> FALSE, err |-> "IntegrityError", line |-> 49, table |-> table, id |-> 0]
    ELSE [ok |-> TRUE, err |-> "", line |-> 0, id |-> Len(table) + 1,
          table |-> Append(table, [id |-> Len(table) + 1, username |-> username,
                                   email |-> email,
                                   hashed_password |-> <<"$">> \o password])]

\* EmailStr, as far as these requests exercise it: one @ between a local
\* part and a domain with a dot inside
IsEmail(s) ==
    /\ Cardinality({i \in 1..Len(s) : s[i] = "@"}) = 1
    /\ LET at == CHOOSE i \in 1..Len(s) : s[i] = "@"
       IN  /\ at > 1
           /\ \E i \in (at + 2)..(Len(s) - 1) : s[i] = "."

\* UserCreate
ValidUserCreate(username, email, password) ==
    /\ Len(username) >= UsernameMinLen /\ Len(username) <= UsernameMaxLen
    /\ IsEmail(email)
    /\ Len(password) >= PasswordMinLen

\* a body whose field is a text of any length
StrBody(body, key) ==
    /\ body.t = "dict"
    /\ HasKey(body, key)
    /\ Item(body, key).t = "str"

\* DiaryEntryCreate (key text) and ReplyToAIRequest (key message)
ValidBody(body, key) ==
    /\ body.t = "dict"
    /\ HasKey(body, key)
    /\ Item(body, key).t = "str"
    /\ Len(Item(body, key).s) >= TextMinLen

\* POST /auth/register
Register(r, username, email, password) ==
    /\ Free(r)
    /\ LET Answer(code, err, line, token, user_id) ==
               reqs' = [reqs EXCEPT ![r] =
                           [IdleReq EXCEPT !.op = "register",
                                           !.pc = IF err = "" THEN "done" ELSE "failed",
                                           !.username = username, !.email = email,
                                           !.user_id = user_id, !.token = token,
                                           !.status = code, !.err = err, !.line = line]]
           Create(made) ==
               /\ users' = made.table
               /\ IF made.ok THEN Answer(201, "", 0, <<CreateAccessToken(made.id)>>, made.id)
                  ELSE Answer(500, made.err, made.line, <<>>, NoUser)
       IN  IF ~ValidUserCreate(username, email, password)
           THEN Answer(422, "RequestValidationError", 17, <<>>, NoUser) /\ users' = users
           ELSE IF GetUserByUsername(users, username) # <<>>
           THEN Answer(400, "HTTPException", 23, <<>>, NoUser) /\ users' = users
           ELSE IF GetUserByEmail(users, email) # <<>>
           THEN Answer(400, "HTTPException", 30, <<>>, NoUser) /\ users' = users
           ELSE Create(CreateUser(users, username, email, password))
    /\ UNCHANGED <<text, loads, task, raw, analysis, rows, lastrowid, clock>>

\* POST /register of the web pages
WebRegister(r, username, email, password) ==
    /\ Free(r)
    /\ LET Redirect(url, err, token, user_id) ==
               reqs' = [reqs EXCEPT ![r] =
                           [IdleReq EXCEPT !.op = "web_register",
                                           !.pc = IF err = "" THEN "done" ELSE "failed",
                                           !.username = username, !.email = email,
                                           !.user_id = user_id, !.token = token,
                                           !.status = IF err = "" THEN 303 ELSE 500,
                                           !.url = url, !.err = err]]
           Create(made) ==
               /\ users' = made.table
               /\ IF made.ok
                  THEN Redirect("/", "", <<CreateAccessToken(made.id)>>, made.id)
                  ELSE Redirect("", made.err, <<>>, NoUser)
       IN  IF GetUserByUsername(users, username) # <<>>
           THEN Redirect("/register?error=username_exists", "", <<>>, NoUser)
                /\ users' = users
           ELSE IF GetUserByEmail(users, email) # <<>>
           THEN Redirect("/register?error=email_exists", "", <<>>, NoUser)
                /\ users' = users
           ELSE Create(CreateUser(users, username, email, password))
    /\ UNCHANGED <<text, loads, task, raw, analysis, rows, lastrowid, clock>>

\* a request that fails validation is answered before its handler is called
Unprocessable(r, op, entry_id) ==
    /\ Free(r)
    /\ reqs' = [reqs EXCEPT ![r] =
                   [IdleReq EXCEPT !.op = op, !.pc = "failed", !.id = entry_id,
                                   !.status = 422, !.err = "RequestValidationError"]]
    /\ UNCHANGED <<text, loads, task, raw, analysis, rows, lastrowid, clock, users>>

\* POST /entries of the API, up to the await of the model
ApiCreateEntry(r, body) ==
    IF ValidBody(body, KeyText)
    THEN SvcCreate(r, Item(body, KeyText).s, DefaultUserId)
    ELSE Unprocessable(r, "create", 0)

\* POST /entries/{entry_id}/reply of the API, up to the await of the model
ApiReplyToAI(r, entry_id, body) ==
    IF ValidBody(body, KeyMessage)
    THEN SvcReply(r, entry_id, Item(body, KeyMessage).s)
    ELSE Unprocessable(r, "reply", entry_id)

\* POST /entries of the web pages, up to the await of the model
SubmitEntry(r, txt, cookie) ==
    LET Submit(user_id) ==
            SvcCreate(r, txt, IF user_id = NoUser THEN DefaultUserId ELSE user_id)
    IN  Submit(GetUserIdFromCookie(cookie))

\* GET /, GET /entries and GET /stats of the web pages: the entries shown
WebRead(r, page, cookie) ==
    /\ Free(r)
    /\ LET Limit(entries) ==
               IF page = "index" THEN Prefix(entries, IndexLimit)
               ELSE IF page = "stats" THEN Prefix(entries, TimelineLimit)
               ELSE entries
           Show(user_id) ==
               reqs' = [reqs EXCEPT ![r] =
                           [IdleReq EXCEPT !.op = page, !.pc = "done", !.cookie = cookie,
                                           !.user_id = user_id, !.status = 200,
                                           !.ret = Limit(ListEntries(rows, user_id))]]
       IN  Show(GetUserIdFromCookie(cookie))
    /\ UNCHANGED <<text, loads, task, raw, analysis, rows, lastrowid, clock, users>>

\* POST /entries/{entry_id}/delete of the web pages
DeleteEntryWeb(r, entry_id, cookie) ==
    /\ Free(r)
    /\ LET Redirect(user_id, url) ==
               reqs' = [reqs EXCEPT ![r] =
                           [IdleReq EXCEPT !.op = "web_delete", !.pc = "done",
                                           !.id = entry_id, !.cookie = cookie,
                                           !.user_id = user_id, !.status = 303,
                                           !.url = url]]
           Delete(user_id) ==
               IF user_id = NoUser
               THEN Redirect(user_id, "/login") /\ rows' = rows
               ELSE IF GetEntry(rows, entry_id, user_id) = <<>>
               THEN Redirect(user_id, "/entries?error=not_found") /\ rows' = rows
               ELSE /\ rows' = DeleteRow(rows, entry_id)
                    /\ Redirect(user_id, IF DeleteReturns(rows, entry_id)
                                         THEN "/entries?success=deleted"
                                         ELSE "/entries?error=delete_failed")
       IN  Delete(GetUserIdFromCookie(cookie))
    /\ UNCHANGED <<text, loads, task, raw, analysis, lastrowid, clock, users>>

(***************************************************************************)
(* The extractor on its own: _safe_json_loads applied to                   *)
(*   - every text of at most MaxTextLen characters over ScanAlphabet, and  *)
(*   - every JSON object of EmbeddedObjects, spelled by Dumps and put      *)
(*     between a prefix and a suffix of at most MaxAffixLen characters.    *)
(***************************************************************************)
MaxTextLen == 5
MaxAffixLen == 1
MaxNesting == 2

ScanAlphabet == {"{", "}", "\"", ":", "1"}
AffixAlphabet == {"b", " ", "{", "}"}

EmbeddedScalars == {IntV(1000), FloatV(-250), StrV(<<"b">>), StrV(<<"}">>), StrV(<<"{", "}">>)}

\* JSON objects nested at most n deep
RECURSIVE NestedObjects(_)
NestedObjects(n) ==
    IF n = 0 THEN {DictV(<<>>)}
    ELSE LET inner == NestedObjects(n - 1) IN
         {DictV(<<>>)}
             \cup {Obj1(<<"a">>, v) : v \in EmbeddedScalars \cup inner}
             \cup {Obj2(<<"a">>, v, <<"b">>, IntV(1000)) : v \in inner}

EmbeddedObjects == NestedObjects(MaxNesting)

PlainText(s) == [s |-> s, embedded |-> FALSE, prefix |-> <<>>, obj |-> NoneV, suffix |-> <<>>]
EmbeddedText(p, o, x) ==
    [s |-> p \o Dumps(o) \o x, embedded |-> TRUE, prefix |-> p, obj |-> o, suffix |-> x]

ExtractTexts ==
    {PlainText(s) : s \in SeqsUpTo(ScanAlphabet, MaxTextLen)}
        \cup {EmbeddedText(p, o, x) : p \in SeqsUpTo(AffixAlphabet, MaxAffixLen),
                                      o \in EmbeddedObjects,
                                      x \in SeqsUpTo(AffixAlphabet, MaxAffixLen)}

NotLoaded == [st |-> "pending", ok |-> FALSE, err |-> "", line |-> 0, v |-> NoneV]

ServiceIdle ==
    /\ task = IdleTask
    /\ raw = <<>>
    /\ analysis = NoAnalysis
    /\ rows = <<>>
    /\ lastrowid = 0
    /\ clock = 0
    /\ reqs = [r \in Requests |-> IdleReq]
    /\ users = <<>>

InitExtract ==
    /\ text \in ExtractTexts
    /\ loads = NotLoaded
    /\ ServiceIdle

\* the call _safe_json_loads(text)
Extract ==
    /\ loads.st = "pending"
    /\ loads' = [st |-> "done"] @@ SafeJsonLoads(text.s)
    /\ UNCHANGED <<text, task, raw, analysis, rows, lastrowid, clock, reqs, users>>

NextExtract == Extract

SpecExtract == InitExtract /\ [][NextExtract]_vars

(***************************************************************************)
(* One request to create an entry.  The diary text is as long as the       *)
(* summary limit or up to MaxExtraLen characters longer; the model's       *)
(* output is drawn from RawOutputs: JSON objects in which fields are       *)
(* missing, null or of another type, and texts that hold no JSON object.   *)
(***************************************************************************)
MaxExtraLen == 1
MaxEmotionKeys == 2
MaxTags == 6

DiaryChars == <<"k:o", "k:neul", " ", "k:nal", "k:ssi", "k:ga", " ", "k:joh", "k:da", ".", " ">>
DiaryText(n) == [i \in 1..n |-> DiaryChars[((i - 1) % Len(DiaryChars)) + 1]]
DiaryTexts == {DiaryText(n) : n \in SummaryLimit..(SummaryLimit + MaxExtraLen)}

\* a field the model left out
Absent == [t |-> "absent", n |-> 0, s |-> <<>>, d |-> <<>>, l |-> <<>>]
Field(k, v) == IF v = Absent THEN <<>> ELSE <<[k |-> k, v |-> v]>>

WordJoy == <<"j", "o", "y">>
WordHigh == <<"h", "i", "g", "h">>
Padded(s) == <<" ">> \o s \o <<" ">>

LabelInputs ==
    {Absent, NoneV, IntV(1000), StrV(Positive), StrV(Negative), StrV(Neutral),
     StrV(<<"P">> \o Tail(WordPositive)), StrV(<<"N", "E", "G", "A", "T", "I", "V", "E">>),
     StrV(Padded(WordNeutral)), StrV(Padded(Positive)), StrV(WordJoy)}
ScoreInputs ==
    {Absent, NoneV, IntV(0), FloatV(0), FloatV(500), IntV(1000), FloatV(1500),
     FloatV(-300), FloatV(125), FloatV(126), FloatV(10), StrV(WordHigh), StrV(<<"0", ".", "7">>)}
SentimentInputs ==
    {Absent, NoneV, IntV(5000), ListV(<<StrV(Positive)>>),
     StrV(Positive), StrV(WordPositive), StrV(WordJoy), StrV(<<>>)}
        \cup {DictV(Field(KeyLabel, l) \o Field(KeyScore, sc)) : l \in LabelInputs, sc \in ScoreInputs}

EmotionValueInputs ==
    {NoneV, FloatV(900), FloatV(1500), FloatV(-200), FloatV(126), StrV(WordHigh)}
EmotionKeySets == {K \in SUBSET (1..6) : Cardinality(K) <= MaxEmotionKeys}
EmotionDict(K, f) ==
    LET idx == SelectSeq(<<1, 2, 3, 4, 5, 6>>, LAMBDA i : i \in K)
    IN  DictV([j \in 1..Len(idx) |-> [k |-> KrEmotions[idx[j]], v |-> f[idx[j]]]])
EmotionDicts ==
    UNION {{EmotionDict(K, f) : f \in [K -> EmotionValueInputs]} : K \in EmotionKeySets}
EmotionInputs ==
    {Absent, NoneV, ListV(<<FloatV(900)>>), StrV(WordHigh),
     Obj2(Happiness, FloatV(100), Calmness, FloatV(900))} \cup EmotionDicts
FewEmotionInputs ==
    {Absent, DictV(<<>>), Obj2(Happy, FloatV(100), Calm, FloatV(900)),
     Obj2(Sad, FloatV(900), Excited, FloatV(900))}
PrimaryInputs ==
    {Absent, NoneV, IntV(3000), StrV(<<>>), StrV(WordJoy), StrV(Happy), StrV(Excited),
     StrV(Padded(Sad)), StrV(Calmness)}

ShortComfort == <<"k:him", "k:nae", "k:se", "k:yo", "!", " ", "k:jal", "k:haess", "k:eo">>
SummaryInputs == {Absent, NoneV, IntV(5000), StrV(<<"k:joh", "k:eun", " ", "k:nal">>)}
ComfortInputs ==
    {Absent, NoneV, IntV(7000), StrV(<<>>), StrV(ShortComfort), StrV(Padded(ShortComfort)),
     StrV(ShortComfort \o <<"!">>)}
TagName(i) == <<"t", "a", "g", DumpNum(i * 1000, FALSE)[1]>>
TagInputs ==
    {Absent, NoneV, IntV(3000), StrV(TagDiary),
     ListV(<<IntV(1000), NoneV, StrV(TagDiary)>>)}
        \cup {ListV([i \in 1..n |-> StrV(TagName(i))]) : n \in 0..MaxTags}

ModelObjects ==
    {DictV(Field(KeySentiment, se)) : se \in SentimentInputs}
        \cup {DictV(Field(KeyEmotionScores, es) \o Field(KeyPrimaryEmotion, pe)) :
                 es \in EmotionInputs, pe \in {Absent, StrV(WordJoy)}}
        \cup {DictV(Field(KeyPrimaryEmotion, pe) \o Field(KeyEmotionScores, es)) :
                 es \in FewEmotionInputs, pe \in PrimaryInputs}
        \cup {DictV(Field(KeySummary, su) \o Field(KeyComfortMessage, cm) \o Field(KeyTags, tg)) :
                 su \in SummaryInputs, cm \in ComfortInputs, tg \in TagInputs}

Prose == <<"k:bun", "k:seok", ":", "\n">>
\* texts from which no JSON object can be taken, or one the model did not mean
MalformedOutputs ==
    {<<>>, Prose, <<"{">> \o Prose, Prose \o <<"}">>,
     <<"{">> \o KeySummary \o <<"}">>,
     Dumps(Obj1(KeyComfortMessage, StrV(DefaultComfort \o <<" ", ":", "}">>))),
     <<"{", "}", " ">> \o Dumps(Obj1(KeySentiment, StrV(Positive)))}

RawOutputs ==
    {Dumps(o) : o \in ModelObjects}
        \cup {Prose \o Dumps(o) \o <<"\n">> \o Prose : o \in {DictV(Field(KeySentiment, se)) :
                                                              se \in {NoneV, StrV(Negative)}}}
        \cup MalformedOutputs

InitAnalyze ==
    /\ text = PlainText(<<>>)
    /\ loads = NotLoaded
    /\ ServiceIdle

NextAnalyze ==
    \/ \E txt \in DiaryTexts : CreateEntry(txt, DefaultUserId)
    \/ \E output \in RawOutputs : GenerateText(output)
    \/ CreateEntryResume

SpecAnalyze == InitAnalyze /\ [][NextAnalyze]_vars

(***************************************************************************)
(* The service under concurrent requests of two users                      *)
(***************************************************************************)
MaxEntries == 2
MaxClock == 6

UserIds == {DefaultUserId, DefaultUserId + 1}
EntryIds == 1..MaxEntries

ServiceTexts == {DiaryText(2), DiaryText(3)}
UserMessages == {<<"w", "h", "y">>}
FollowupOutputs == {<<" ", "o", "k", "\n">>}

LongComfort == [i \in 1..ComfortMinLen |-> "z"]

\* two analyses with different fields, one whose summary is a number and one
\* whose summary is null
ServiceOutputs ==
    {Dumps(DictV(Field(KeySummary, StrV(WordJoy))
                 \o Field(KeySentiment, DictV(Field(KeyLabel, StrV(Positive))))
                 \o Field(KeyComfortMessage, StrV(LongComfort)))),
     Dumps(DictV(Field(KeyEmotionScores,
                       DictV(<<[k |-> KrEmotions[1], v |-> FloatV(126)],
                               [k |-> KrEmotions[2], v |-> FloatV(1500)]>>))
                 \o Field(KeyTags, ListV(<<StrV(TagName(1))>>)))),
     Dumps(Obj1(KeySummary, IntV(5000))),
     Dumps(Obj1(KeySummary, NoneV))}

\* the requests that have asked the model and not been answered
Awaiting(op) == {r \in Requests : reqs[r].op = op /\ reqs[r].pc = "awaiting"}

InitService ==
    /\ text = PlainText(<<>>)
    /\ loads = NotLoaded
    /\ ServiceIdle

NextService ==
    \/ \E r \in Requests, txt \in ServiceTexts, user_id \in UserIds :
           /\ clock < MaxClock
           /\ lastrowid + Cardinality(Awaiting("create")) < MaxEntries
           /\ SvcCreate(r, txt, user_id)
    \/ \E r \in Requests, output \in ServiceOutputs : SvcCreateResume(r, output)
    \/ \E r \in Requests, entry_id \in EntryIds, txt \in ServiceTexts :
           /\ clock < MaxClock
           /\ SvcUpdate(r, entry_id, txt)
    \/ \E r \in Requests, output \in ServiceOutputs : SvcUpdateResume(r, output)
    \/ \E r \in Requests, entry_id \in EntryIds, user_message \in UserMessages :
           /\ clock < MaxClock
           /\ SvcReply(r, entry_id, user_message)
    \/ \E r \in Requests, output \in FollowupOutputs : SvcReplyResume(r, output)
    \/ \E entry_id \in EntryIds : SvcDelete(entry_id)

SpecService == InitService /\ [][NextService]_vars

(***************************************************************************)
(* Requests to /ai/diary, with a model that may fail                       *)
(***************************************************************************)
\* JSON bodies: no text, an empty or blank one, one that is no string, a body
\* that is no object, and diary texts with blanks around them
RequestBodies ==
    {NoneV, DictV(<<>>), ListV(<<IntV(1000)>>),
     Obj1(KeyText, NoneV), Obj1(KeyText, StrV(<<>>)), Obj1(KeyText, StrV(<<" ", "\n">>)),
     Obj1(KeyText, IntV(5000))}
        \cup {Obj1(KeyText, StrV(Padded(txt))) : txt \in ServiceTexts \cup DiaryTexts}

ModelErrors == {"RuntimeError", "ValueError", "HTTPStatusError"}

ReplyOutputs == ServiceOutputs \cup MalformedOutputs

InitDiaryReply == InitAnalyze

NextDiaryReply ==
    \/ \E data \in RequestBodies : GenerateDiaryReply(data)
    \/ \E output \in ReplyOutputs : GenerateText(output)
    \/ SamplingFails
    \/ \E output \in ReplyOutputs : GenerateGreedy(output)
    \/ \E err \in ModelErrors : GenerateRaises(err)
    \/ GenerateDiaryReplyResume

SpecDiaryReply == InitDiaryReply /\ [][NextDiaryReply]_vars

(***************************************************************************)
(* Registration through the API and through the web form                   *)
(***************************************************************************)
Usernames == {<<"a", "n", "n">>, <<"b", "o", "b">>}
Emails == {<<"a", "@", "x", ".", "y">>, <<"b", "@", "x", ".", "y">>}
Passwords == {<<"s", "e", "c", "r", "e", "t">>}

\* the bodies of POST /auth/register: well-formed ones, and one with a short
\* username, one with no domain in the email, one with a short password
UserCreates ==
    [username : Usernames, email : Emails, password : Passwords]
    \cup {[username |-> <<"a", "l">>, email |-> <<"a", "@", "x", ".", "y">>,
           password |-> <<"s", "e", "c", "r", "e", "t">>],
          [username |-> <<"a", "n", "n">>, email |-> <<"a", "@", "x">>,
           password |-> <<"s", "e", "c", "r", "e", "t">>],
          [username |-> <<"a", "n", "n">>, email |-> <<"a", "@", "x", ".", "y">>,
           password |-> <<"p", "w">>]}

InitAuth == InitService

NextAuth ==
    \/ \E r \in Requests, data \in UserCreates :
           Register(r, data.username, data.email, data.password)
    \/ \E r \in Requests, username \in Usernames, email \in Emails, password \in Passwords :
           WebRegister(r, username, email, password)

SpecAuth == InitAuth /\ [][NextAuth]_vars

(***************************************************************************)
(* The API routes that create an entry and reply to the model, with        *)
(* request bodies that pass validation and bodies that do not              *)
(***************************************************************************)
CreateBodies ==
    {DictV(<<>>), Obj1(KeyText, NoneV), Obj1(KeyText, StrV(<<>>))}
    \cup {Obj1(KeyText, StrV(txt)) : txt \in ServiceTexts}

ReplyBodies ==
    {DictV(<<>>), Obj1(KeyMessage, StrV(<<>>))}
    \cup {Obj1(KeyMessage, StrV(message)) : message \in UserMessages}

ApiOutputs == {Dumps(Obj1(KeySummary, StrV(WordJoy))), Dumps(Obj1(KeySummary, IntV(5000)))}

InitApi == InitService

NextApi ==
    \/ \E r \in Requests, body \in CreateBodies :
           /\ clock < MaxClock
           /\ lastrowid + Cardinality(Awaiting("create")) < MaxEntries
           /\ ApiCreateEntry(r, body)
    \/ \E r \in Requests, output \in ApiOutputs : SvcCreateResume(r, output)
    \/ \E r \in Requests, entry_id \in EntryIds, body \in ReplyBodies :
           /\ clock < MaxClock
           /\ ApiReplyToAI(r, entry_id, body)
    \/ \E r \in Requests, output \in FollowupOutputs : SvcReplyResume(r, output)

SpecApi == InitApi /\ [][NextApi]_vars

(***************************************************************************)
(* The web pages under the requests of registered and anonymous visitors.  *)
(* A visitor sends no cookie, a token that jwt.decode rejects, or a token  *)
(* that was issued to a stored user.  Entries are submitted by both        *)
(* clients; the pages that answer without awaiting are requested by one.   *)
(***************************************************************************)
Visitors == {"r1"}
Pages == {"index", "entries", "stats"}
Accounts ==
    {[username |-> <<"a", "n", "n">>, email |-> <<"a", "@", "x", ".", "y">>],
     [username |-> <<"b", "o", "b">>, email |-> <<"b", "@", "x", ".", "y">>]}
WebTexts == {DiaryText(2)}
WebOutputs == {Dumps(Obj1(KeySummary, StrV(WordJoy)))}

Cookies ==
    {<<>>, <<[CreateAccessToken(DefaultUserId) EXCEPT !.valid = FALSE]>>}
    \cup {<<CreateAccessToken(users[i].id)>> : i \in 1..Len(users)}

InitWeb == InitService

NextWeb ==
    \/ \E r \in Visitors, account \in Accounts, password \in Passwords :
           WebRegister(r, account.username, account.email, password)
    \/ \E r \in Requests, txt \in WebTexts, cookie \in Cookies :
           /\ clock < MaxClock
           /\ lastrowid + Cardinality(Awaiting("create")) < MaxEntries
           /\ SubmitEntry(r, txt, cookie)
    \/ \E r \in Requests, output \in WebOutputs : SvcCreateResume(r, output)
    \/ \E r \in Visitors, page \in Pages, cookie \in Cookies : WebRead(r, page, cookie)
    \/ \E r \in Visitors, entry_id \in EntryIds, cookie \in Cookies :
           DeleteEntryWeb(r, entry_id, cookie)

SpecWeb == InitWeb /\ [][NextWeb]_vars

(***************************************************************************)
(* Properties of the extractor                                             *)
(***************************************************************************)
\* '{' minus '}' among the characters a..b of s
Depth(s, a, b) ==
    Cardinality({k \in a..b : s[k] = "{"}) - Cardinality({k \in a..b : s[k] = "}"})

FirstBrace(s) ==
    IF \E k \in 1..Len(s) : s[k] = "{"
    THEN CHOOSE k \in 1..Len(s) : s[k] = "{" /\ \A m \in 1..(k - 1) : s[m] # "{"
    ELSE 0

\* the positions from the first '{' on at which the depth is back to zero
Closings(s) ==
    {j \in 1..Len(s) : FirstBrace(s) > 0 /\ j >= FirstBrace(s)
                       /\ Depth(s, FirstBrace(s), j) = 0}

FirstClosing(s) == CHOOSE j \in Closings(s) : \A m \in Closings(s) : j <= m

BraceFree(s) == \A k \in 1..Len(s) : s[k] \notin {"{", "}"}

\* C3: a JSON object serialized between a prefix and a suffix comes back from
\* _safe_json_loads as exactly that object (stated here for the prefixes and
\* suffixes that hold no brace of their own, where the object to recover is
\* beyond dispute).
C3_RoundTrip ==
    (loads.st = "done" /\ text.embedded /\ BraceFree(text.prefix) /\ BraceFree(text.suffix))
        => (loads.ok /\ loads.v = text.obj)

\* C4: _safe_json_loads fails exactly when the text has no '{', or the depth
\* counted from the first '{' never returns to zero, or the substring from the
\* first '{' to the first return to zero is not valid JSON; otherwise it
\* returns that substring parsed.
C4_FailsExactly ==
    loads.st = "done" =>
        LET s == Strip(text.s)
            sub == SubSeq(s, FirstBrace(s), FirstClosing(s))
        IN  IF FirstBrace(s) = 0 \/ Closings(s) = {}
            THEN ~loads.ok /\ loads.v = NoneV /\ loads.err = "ValueError"
            ELSE IF ~JsonLoads(sub).ok
                 THEN ~loads.ok /\ loads.v = NoneV
                 ELSE loads.ok /\ loads.v = JsonLoads(sub).v

\* a text with a balanced first object that is not JSON, after more than one
\* level of nesting or some text in front
C4_Witness ==
    /\ loads.st = "done"
    /\ loads.err = "JSONDecodeError"
    /\ FirstBrace(Strip(text.s)) > 1
    /\ FirstClosing(Strip(text.s)) < Len(Strip(text.s))

(***************************************************************************)
(* Properties of analyze_diary and create_entry                            *)
(***************************************************************************)
\* create_entry has run to its end, or to an exception
Finished == task.pc \in {"done", "failed"}

\* the fields of the dict given to the normalisation, and of the record returned
In(k) == DictGet(analysis.parsed, k, Absent)
Out(k) == DictGet(analysis.res.v, k, Absent)

IsNumber(v) == v.t \in {"int", "float"}
IsUnit(v) == v.t = "float" /\ v.n >= 0 /\ v.n <= 1000

\* the score the normalisation is to give for the i-th emotion of the dict es
NormalScore(es, i) ==
    IF IsNumber(DictGet(es, KrEmotions[i], Absent))
    THEN Round2(Clamp01(DictGet(es, KrEmotions[i], Absent).n))
    ELSE 0

\* every field of the record v is present and within its domain
InDomain(v) ==
    /\ DictGet(v, KeySummary, Absent).t = "str"
    /\ DictGet(v, KeySentiment, Absent).t = "dict"
    /\ DictGet(DictGet(v, KeySentiment, Absent), KeyLabel, Absent).t = "str"
    /\ DictGet(DictGet(v, KeySentiment, Absent), KeyLabel, Absent).s \in SentimentLabels
    /\ IsUnit(DictGet(DictGet(v, KeySentiment, Absent), KeyScore, Absent))
    /\ DictGet(v, KeyEmotionScores, Absent).t = "dict"
    /\ Len(DictGet(v, KeyEmotionScores, Absent).d) = 6
    /\ \A i \in 1..6 : IsUnit(DictGet(DictGet(v, KeyEmotionScores, Absent), EnEmotions[i], Absent))
    /\ DictGet(v, KeyPrimaryEmotion, Absent).t = "str"
    /\ DictGet(v, KeyPrimaryEmotion, Absent).s \in ValidEmotions
    /\ DictGet(v, KeyComfortMessage, Absent).t = "str"
    /\ Len(DictGet(v, KeyComfortMessage, Absent).s) >= ComfortMinLen
    /\ DictGet(v, KeyTags, Absent).t = "list"
    /\ Len(DictGet(v, KeyTags, Absent).l) <= TagsLimit
    /\ \A i \in 1..Len(DictGet(v, KeyTags, Absent).l) : DictGet(v, KeyTags, Absent).l[i].t = "str"

\* C1: whenever analyze_diary returns a record for a JSON object of the model,
\* every field of the record is present and within its declared domain.
C1_InDomain ==
    (Finished /\ analysis.extracted /\ analysis.res.ok) => InDomain(analysis.res.v)

\* C2: whatever text the model returned, analyze_diary returns a record and
\* create_entry goes on to persist the entry.
C2_NeverRaises ==
    Finished => (analysis.res.ok /\ task.pc = "done" /\ Len(rows) = 1)

\* the default record, for the diary text txt
DefaultSummary(txt) ==
    IF Len(txt) <= 50 THEN txt ELSE SubSeq(txt, 1, 50) \o <<".", ".", ".">>

IsDefaultRecord(v, txt) ==
    /\ Len(v.d) = 6
    /\ DictGet(v, KeySummary, Absent) = StrV(DefaultSummary(txt))
    /\ Len(DictGet(v, KeySentiment, Absent).d) = 2
    /\ DictGet(DictGet(v, KeySentiment, Absent), KeyLabel, Absent) = StrV(Neutral)
    /\ DictGet(DictGet(v, KeySentiment, Absent), KeyScore, Absent) = FloatV(500)
    /\ Len(DictGet(v, KeyEmotionScores, Absent).d) = 6
    /\ \A i \in 1..6 :
          DictGet(DictGet(v, KeyEmotionScores, Absent), EnEmotions[i], Absent) = FloatV(200)
    /\ DictGet(v, KeyPrimaryEmotion, Absent) = StrV(Calm)
    /\ DictGet(v, KeyComfortMessage, Absent) = StrV(DefaultComfort)
    /\ DictGet(v, KeyTags, Absent) = ListV(<<StrV(TagDiary), StrV(TagAuto)>>)

\* C5: when the extraction of the model's output fails, analyze_diary returns
\* exactly the default record: the diary text, cut to 50 characters and "..."
\* if it is longer, neutral at 0.5, six scores of 0.2, calm, the fixed comfort
\* message and the two fixed tags.
C5_DefaultRecord ==
    (Finished /\ ~analysis.extracted) =>
        (analysis.res.ok /\ IsDefaultRecord(analysis.res.v, task.text))

\* the extraction failed on a text that does hold braces, for a diary text
\* longer than the summary
C5_Witness ==
    /\ Finished
    /\ ~analysis.extracted
    /\ analysis.res.ok
    /\ Len(task.text) > SummaryLimit
    /\ Len(Out(KeySummary).s) = SummaryLimit + 3
    /\ \E k \in 1..Len(raw) : raw[k] = "{"

\* C6: the record returned by the normalisation, given back to it as the
\* parsed object, comes out the same.
C6_Idempotent ==
    (Finished /\ analysis.res.ok) =>
        Normalize(analysis.res.v, task.text) = analysis.res

\* the model sent emotion scores, and nothing but the emotion scores can make
\* the normalisation raise
EmotionCase ==
    /\ Finished
    /\ analysis.extracted
    /\ In(KeyEmotionScores).t = "dict"
    /\ In(KeySentiment) = Absent
    /\ In(KeyPrimaryEmotion).t \in {"absent", "none", "str"}
    /\ In(KeyComfortMessage) = Absent

\* C7: each of the six emotions comes out as the value under its Korean key,
\* clamped to [0,1] and rounded to 2 decimals, and as 0.0 when the key is
\* absent or its value is not a number; the output has exactly the six keys.
C7_EmotionScores ==
    EmotionCase =>
        /\ analysis.res.ok
        /\ Out(KeyEmotionScores).t = "dict"
        /\ Len(Out(KeyEmotionScores).d) = 6
        /\ \A i \in 1..6 :
              DictGet(Out(KeyEmotionScores), EnEmotions[i], Absent)
                  = FloatV(NormalScore(In(KeyEmotionScores), i))

\* the label the model gave, as a bare string or in an object
GivenLabel ==
    IF In(KeySentiment).t = "str" THEN In(KeySentiment)
    ELSE DictGet(In(KeySentiment), KeyLabel, Absent)

\* the model sent a sentiment of one of the two shapes, with a label that is a
\* string or is missing, and a score that is a number or is missing
SentimentCase ==
    /\ Finished
    /\ analysis.extracted
    /\ In(KeySentiment).t \in {"str", "dict"}
    /\ GivenLabel.t \in {"str", "absent", "none"}
    /\ \/ In(KeySentiment).t = "str"
       \/ DictGet(In(KeySentiment), KeyScore, Absent).t \in {"int", "float", "absent", "none"}
    /\ In(KeyEmotionScores) = Absent
    /\ In(KeyPrimaryEmotion) = Absent
    /\ In(KeyComfortMessage) = Absent

CanonicalLabel(l) ==
    IF l \in SentimentLabels THEN l
    ELSE IF Lower(l) = WordPositive THEN Positive
    ELSE IF Lower(l) = WordNegative THEN Negative
    ELSE Neutral

\* C8: for a bare label string and for an object with a label alike, a
\* sentiment is produced whose label is the canonical one for the label given
\* (surrounding blanks apart), neutral when it is unrecognized or missing.
C8_SentimentLabel ==
    SentimentCase =>
        /\ analysis.res.ok
        /\ DictGet(Out(KeySentiment), KeyLabel, Absent)
              = StrV(CanonicalLabel(Strip(GivenLabel.s)))

GivenScore == DictGet(In(KeySentiment), KeyScore, Absent)

\* C9: a numeric score of the sentiment object comes out clamped to [0,1] and
\* rounded to 2 decimals, the boundary 0 included; 0.5 comes out when the score
\* is absent.
C9_SentimentScore ==
    (SentimentCase /\ In(KeySentiment).t = "dict") =>
        /\ analysis.res.ok
        /\ DictGet(Out(KeySentiment), KeyScore, Absent)
              = FloatV(IF IsNumber(GivenScore) THEN Clamp01(Round2(GivenScore.n)) ELSE 500)

\* the first emotion, in the canonical order, of the largest normalised score
ArgMax(es) ==
    CHOOSE i \in 1..6 :
        /\ \A j \in 1..6 : NormalScore(es, j) <= NormalScore(es, i)
        /\ \A j \in 1..(i - 1) : NormalScore(es, j) < NormalScore(es, i)

\* the model sent emotion scores that are numbers, or none at all
PrimaryCase ==
    /\ Finished
    /\ analysis.extracted
    /\ In(KeyEmotionScores).t \in {"absent", "dict"}
    /\ \A i \in 1..Len(In(KeyEmotionScores).d) : IsNumber(In(KeyEmotionScores).d[i].v)
    /\ In(KeySentiment) = Absent
    /\ In(KeyComfortMessage) = Absent

ValidPrimary == In(KeyPrimaryEmotion).t = "str" /\ In(KeyPrimaryEmotion).s \in ValidEmotions

\* absent, or neither one of the six labels nor one of them between blanks
InvalidPrimary ==
    \/ In(KeyPrimaryEmotion).t # "str"
    \/ Strip(In(KeyPrimaryEmotion).s) \notin ValidEmotions

\* C10: a primary_emotion that is one of the six labels is kept; when it is
\* absent or invalid and there are emotion scores, the emotion of the largest
\* normalised score comes out, the first in the canonical order on a tie.
C10_PrimaryEmotion ==
    PrimaryCase =>
        /\ ValidPrimary => (analysis.res.ok /\ Out(KeyPrimaryEmotion) = In(KeyPrimaryEmotion))
        /\ (InvalidPrimary /\ In(KeyEmotionScores).t = "dict" /\ In(KeyEmotionScores).d # <<>>)
              => (analysis.res.ok
                  /\ Out(KeyPrimaryEmotion) = StrV(KrEmotions[ArgMax(In(KeyEmotionScores))]))

\* C11: when primary_emotion is absent or invalid and the emotion scores the
\* model sent are empty (an empty object, or none at all), calm comes out.
C11_EmptyScoresCalm ==
    (/\ PrimaryCase
     /\ In(KeyPrimaryEmotion).t \in {"absent", "none", "str"}
     /\ InvalidPrimary
     /\ In(KeyEmotionScores) \in {Absent, DictV(<<>>)})
        => (analysis.res.ok /\ Out(KeyPrimaryEmotion) = StrV(Calm))

(***************************************************************************)
(* Properties of the service under concurrent requests                     *)
(***************************************************************************)
\* the ids of the stored rows
StoredIds == {rows[i].id : i \in 1..Len(rows)}
\* the stored row of an id that is stored
RowOf(entry_id) == rows[CHOOSE i \in 1..Len(rows) : rows[i].id = entry_id]

\* C12: whatever the requests have done, list_entries with the filter of user
\* B returns entries of B only, and get_entry of an id with the filter of B
\* returns nothing when the row of that id belongs to another user.
C12_OwnerIsolation ==
    \A b \in UserIds :
        /\ \A i \in 1..Len(ListEntries(rows, b)) : ListEntries(rows, b)[i].user_id = b
        /\ \A entry_id \in StoredIds :
               RowOf(entry_id).user_id # b => GetEntry(rows, entry_id, b) = <<>>

\* two users own a row each, and each is listed its own
C12_Witness ==
    /\ \E i, j \in 1..Len(rows) : rows[i].user_id # rows[j].user_id
    /\ \A b \in UserIds : Len(ListEntries(rows, b)) = 1
    /\ \E r \in Requests : reqs[r].op = "reply" /\ reqs[r].pc = "done"

\* the request r returns from the operation op in this step, its write done
Returns(r, op) ==
    /\ reqs[r].op = op /\ reqs[r].pc = "awaiting"
    /\ reqs'[r].op = op /\ reqs'[r].pc = "done"

\* C13: the step in which update(id, text) writes an existing entry leaves
\* that entry's id, user id, creation timestamp and conversation log as they
\* were, and every other entry as it was.
C13_UpdateFrame ==
    [][\A r \in Requests :
           Returns(r, "update") =>
               /\ Len(rows') = Len(rows)
               /\ \A i \in 1..Len(rows) :
                      IF rows[i].id = reqs[r].id
                      THEN /\ rows'[i].id = rows[i].id
                           /\ rows'[i].user_id = rows[i].user_id
                           /\ rows'[i].created_at = rows[i].created_at
                           /\ rows'[i].conversations = rows[i].conversations
                      ELSE rows'[i] = rows[i]]_vars

\* an update has written an entry that has a conversation, next to another entry
C13_Witness ==
    \E r \in Requests :
        /\ reqs[r].op = "update" /\ reqs[r].pc = "done"
        /\ reqs[r].id \in StoredIds
        /\ RowOf(reqs[r].id).text = reqs[r].text
        /\ RowOf(reqs[r].id).updated_at = clock
        /\ RowOf(reqs[r].id).conversations # <<>>
        /\ Len(rows) = 2

\* the row holds the fields of the analysis a other than the comfort message
StoresAnalysis(row, a) ==
    /\ StrV(row.summary) = Item(a, KeySummary)
    /\ row.sentiment_label = Item(Item(a, KeySentiment), KeyLabel).s
    /\ row.sentiment_score = Item(Item(a, KeySentiment), KeyScore).n
    /\ \A j \in 1..6 :
           row.emotions[j] = DictGet(Item(a, KeyEmotionScores), EnEmotions[j], FloatV(0)).n
    /\ row.primary_emotion = Item(a, KeyPrimaryEmotion).s
    /\ [j \in 1..Len(row.tags) |-> StrV(row.tags[j])] = Item(a, KeyTags).l

\* C14: when update(id, text) has written an existing entry, the stored entry
\* holds the new text and every field of the new analysis: summary, sentiment,
\* emotion scores, primary_emotion, tags and comfort_message.
C14_UpdateStoresAnalysis ==
    [][\A r \in Requests :
           Returns(r, "update") =>
               \A i \in 1..Len(rows') :
                   rows'[i].id = reqs[r].id =>
                       /\ rows'[i].text = reqs[r].text
                       /\ StoresAnalysis(rows'[i], reqs'[r].analysis)
                       /\ rows'[i].comfort_message
                              = Item(reqs'[r].analysis, KeyComfortMessage).s]_vars

\* what get_entry returns for the row is what create_entry returned: entry is
\* the entry of create_entry with its fields as stored, summary the summary
\* create_entry put in it
SameEntry(got, entry, summary) ==
    /\ got.text = entry.text
    /\ StrV(got.summary) = summary
    /\ got.sentiment_label = entry.sentiment_label
    /\ got.sentiment_score = entry.sentiment_score
    /\ got.emotions = entry.emotions
    /\ got.primary_emotion = entry.primary_emotion
    /\ got.tags = entry.tags
    /\ got.comfort_message = entry.comfort_message
    /\ got.user_id = entry.user_id
    /\ got.conversations = entry.conversations

\* C15: when create(text, owner) returns, its analysis having a comfort
\* message, the stored conversation log of the new entry is one assistant turn
\* whose message is the entry's comfort message, and get_entry of the new id
\* returns the text, analysis fields, owner and log that create returned.
C15_CreateRoundTrip ==
    [][\A r \in Requests :
           (Returns(r, "create") /\ Item(reqs'[r].analysis, KeyComfortMessage).s # <<>>) =>
               /\ GetEntry(rows', reqs'[r].id, NoUser) # <<>>
               /\ \A i \in 1..Len(GetEntry(rows', reqs'[r].id, NoUser)) :
                      /\ Len(GetEntry(rows', reqs'[r].id, NoUser)[i].conversations) = 1
                      /\ GetEntry(rows', reqs'[r].id, NoUser)[i].conversations[1].role
                             = "assistant"
                      /\ GetEntry(rows', reqs'[r].id, NoUser)[i].conversations[1].message
                             = GetEntry(rows', reqs'[r].id, NoUser)[i].comfort_message
                      /\ SameEntry(GetEntry(rows', reqs'[r].id, NoUser)[i], reqs'[r].ret[1],
                                   Item(reqs'[r].analysis, KeySummary))]_vars

\* every user turn of the log is followed by an assistant turn
PairedTurns(log) ==
    \A k \in 1..Len(log) :
        log[k].role = "user" => (k < Len(log) /\ log[k + 1].role = "assistant")

\* C16: reply(id, msg) on an entry that is there when it writes, having read
\* the log L, returns and stores L followed by the user turn with msg and an
\* assistant turn, in that order; and in no state does a stored log hold a user
\* turn without the assistant turn after it.
C16_ReplyAtomic ==
    /\ [](\A i \in 1..Len(rows) : PairedTurns(rows[i].conversations))
    /\ [][\A r \in Requests :
              Returns(r, "reply") =>
                  /\ Len(reqs'[r].log) = Len(reqs[r].read) + 2
                  /\ SubSeq(reqs'[r].log, 1, Len(reqs[r].read)) = reqs[r].read
                  /\ reqs'[r].log[Len(reqs[r].read) + 1].role = "user"
                  /\ reqs'[r].log[Len(reqs[r].read) + 1].message = reqs[r].text
                  /\ reqs'[r].log[Len(reqs[r].read) + 2].role = "assistant"
                  /\ reqs'[r].log[Len(reqs[r].read) + 2].message \in
                         {Strip(output) : output \in FollowupOutputs}
                  /\ \A i \in 1..Len(rows) :
                         rows[i].id = reqs[r].id =>
                             rows'[i].conversations = reqs'[r].log]_vars

\* a reply has returned and the stored log is the one it returned: the turn of
\* the creation, the user's turn and the answer
C16_Witness ==
    \E r \in Requests :
        /\ reqs[r].op = "reply" /\ reqs[r].pc = "done"
        /\ reqs[r].id \in StoredIds
        /\ RowOf(reqs[r].id).conversations = reqs[r].log
        /\ Len(reqs[r].log) = 3
        /\ reqs[r].log[2] = Conversation("user", reqs[r].text, RowOf(reqs[r].id).created_at + 4)

\* the log old is the beginning of the log new
Extends(new, old) == Len(old) <= Len(new) /\ SubSeq(new, 1, Len(old)) = old

\* C17: whatever requests overlap, every step leaves the stored log of an
\* entry that stays stored an extension of what it was: no stored turn is
\* edited or removed.
C17_AppendOnly ==
    [][\A i \in 1..Len(rows), j \in 1..Len(rows') :
           rows[i].id = rows'[j].id =>
               Extends(rows'[j].conversations, rows[i].conversations)]_vars

\* the filters of the reads and the statistics: a user, or none
Filters == UserIds \cup {NoUser}

\* C18: sentiment_counts has a count for each of the three labels and no
\* other, and whatever the requests have done the three counts add up to the
\* number of entries list_entries returns for the same filter.
C18_CountsSum ==
    \A f \in Filters :
        /\ DOMAIN SentimentCounts(rows, f) = SentimentLabels
        /\ \A label \in SentimentLabels : SentimentCounts(rows, f)[label] \in Nat
        /\ SentimentCounts(rows, f)[Positive] + SentimentCounts(rows, f)[Neutral]
               + SentimentCounts(rows, f)[Negative] = Len(ListEntries(rows, f))

\* after an update, two entries of two users with different labels: one label
\* counts 0, and the counts of a user differ from those of all
C18_Witness ==
    /\ \E r \in Requests : reqs[r].op = "update" /\ reqs[r].pc = "done"
    /\ SentimentCounts(rows, NoUser) =
           [label \in SentimentLabels |-> IF label = Negative THEN 0 ELSE 1]
    /\ SentimentCounts(rows, DefaultUserId) =
           [label \in SentimentLabels |-> IF label = Positive THEN 1 ELSE 0]

\* d, in thousandths, is a number of two decimals, and none is nearer to the
\* mean of n scores whose sum is v
IsRoundedMean(d, v, n) ==
    /\ d % 10 = 0
    /\ 2 * (d * n - v) <= 10 * n
    /\ 2 * (v - d * n) <= 10 * n

\* dist, the outcomes of emotion_distribution, is right for the listed entries
IsDistribution(dist, entries, table) ==
    \A j \in 1..6 :
        \A d \in dist[j] :
            /\ entries = <<>> => d = 0
            /\ entries # <<>> => IsRoundedMean(d, SumScores(entries, j, 1), Len(entries))
            /\ (\A i \in 1..Len(table) : \A k \in 1..6 :
                    table[i].emotions[k] >= 0 /\ table[i].emotions[k] <= 1000)
                   => (d >= 0 /\ d <= 1000)

\* C19: for each of the six emotions emotion_distribution returns the mean of
\* the emotion's score over the listed entries rounded to two decimals, 0.0
\* for each when no entry is listed, and a value between 0 and 1 when all the
\* stored scores are.
C19_Distribution ==
    \A f \in Filters :
        IsDistribution(EmotionDistribution(rows, f), ListEntries(rows, f), rows)

\* two entries, one with happiness 0.13 and sadness 1.0 and one with neither:
\* the means are 0.065, half-way between two hundredths, and 0.5; one user has
\* no entry
C19_Witness ==
    /\ Len(rows) = 2
    /\ EmotionDistribution(rows, NoUser)[1] = {60, 70}
    /\ EmotionDistribution(rows, NoUser)[2] = {500}
    /\ \E f \in UserIds : ListEntries(rows, f) = <<>>

\* the id was given to an entry, and the entry has been deleted
Deleted(entry_id) == entry_id <= lastrowid /\ entry_id \notin StoredIds

\* the request r is called with the operation op in this step
Called(r, op) == Free(r) /\ reqs'[r] # reqs[r] /\ reqs'[r].op = op

\* C20: once the entry of an id is deleted, no step brings the id back, be it
\* the return of an update or reply that awaited the model when the delete
\* happened; get_entry and list_entries do not find it, and an update or reply
\* called for it returns None.
C20_DeletePermanent ==
    [][\A entry_id \in EntryIds :
           Deleted(entry_id) =>
               /\ \A i \in 1..Len(rows') : rows'[i].id # entry_id
               /\ GetEntry(rows', entry_id, NoUser) = <<>>
               /\ \A i \in 1..Len(ListEntries(rows', NoUser)) :
                      ListEntries(rows', NoUser)[i].id # entry_id
               /\ \A r \in Requests :
                      ((Called(r, "update") \/ Called(r, "reply"))
                           /\ reqs'[r].id = entry_id) => reqs'[r].pc = "none"]_vars

\* the entry 1 is deleted while an update of it and a reply to it await the
\* model
C20_Witness ==
    /\ Deleted(1)
    /\ \E r \in Awaiting("update") : reqs[r].id = 1
    /\ \E r \in Awaiting("reply") : reqs[r].id = 1

(***************************************************************************)
(* Properties of the model call and of /ai/diary                           *)
(***************************************************************************)
\* a run of model.generate raised in this request
ModelCallFailed == task.caught # "" \/ task.line \in {107, 128}

\* C23: within one call of analyze_diary model.generate runs at most once,
\* and when it raises, analyze_diary returns the default record: it neither
\* runs the model again nor raises.
C23_NoRetry ==
    /\ task.calls <= 1
    /\ (Finished /\ ModelCallFailed) =>
           /\ task.pc = "done"
           /\ analysis.res.ok
           /\ IsDefaultRecord(analysis.res.v, task.text)

\* the body has no text, or a text that is empty or blank
EmptyText(data) ==
    /\ OrElse(data, DictV(<<>>)).t = "dict"
    /\ \/ DictGet(OrElse(data, DictV(<<>>)), KeyText, NoneV).t = "none"
       \/ /\ DictGet(OrElse(data, DictV(<<>>)), KeyText, NoneV).t = "str"
          /\ Strip(DictGet(OrElse(data, DictV(<<>>)), KeyText, NoneV).s) = <<>>

\* C30: /ai/diary answers a body whose text is missing, empty or blank with
\* status 400 and without running the model; it answers 500 only for other
\* failures and 502 only for an HTTP error of the model's server.
C30_Statuses ==
    Finished =>
        /\ EmptyText(task.body) => (task.status = 400 /\ task.calls = 0)
        /\ task.status = 500 => ~EmptyText(task.body)
        /\ task.status = 502 => task.err = "HTTPStatusError"

(***************************************************************************)
(* Further properties of the service under concurrent requests             *)
(***************************************************************************)
\* C25: for an id that is not stored, get_entry returns None and delete_entry
\* returns False and deletes nothing; update_entry and reply_to_ai called for
\* it return None without asking the model, and leave every row as it is.
C25_NotFound ==
    /\ [](\A entry_id \in EntryIds :
              entry_id \notin StoredIds =>
                  /\ GetEntry(rows, entry_id, NoUser) = <<>>
                  /\ ~DeleteReturns(rows, entry_id)
                  /\ DeleteRow(rows, entry_id) = rows)
    /\ [][\A r \in Requests :
              ((Called(r, "update") \/ Called(r, "reply"))
                   /\ reqs'[r].id \notin StoredIds) =>
                  /\ reqs'[r].pc = "none"
                  /\ reqs'[r].ret = <<>> /\ reqs'[r].log = <<>>
                  /\ rows' = rows]_vars

\* next to a stored entry, an update and a reply for an id that is not stored
\* have returned None
C25_Witness ==
    /\ rows # <<>>
    /\ \E r \in Requests :
           reqs[r].op = "update" /\ reqs[r].pc = "none" /\ reqs[r].id \notin StoredIds
    /\ \E r \in Requests :
           reqs[r].op = "reply" /\ reqs[r].pc = "none" /\ reqs[r].id \notin StoredIds

\* C26: the id a create returns is different from the ids of all earlier
\* creates, which are the ids up to lastrowid, whether their entries are
\* still stored or not; and the stored ids are all different.
C26_FreshIds ==
    /\ [](\A i, j \in 1..Len(rows) : rows[i].id = rows[j].id => i = j)
    /\ [][\A r \in Requests :
              Returns(r, "create") =>
                  /\ reqs'[r].id > lastrowid
                  /\ reqs'[r].id \notin StoredIds
                  /\ reqs'[r].id = lastrowid']_vars

\* two creates have returned the ids 1 and 2, and the entry 1 is deleted
C26_Witness ==
    /\ StoredIds = {2}
    /\ \E r \in Requests : reqs[r].op = "create" /\ reqs[r].pc = "done" /\ reqs[r].id = 1
    /\ \E r \in Requests : reqs[r].op = "create" /\ reqs[r].pc = "done" /\ reqs[r].id = 2

\* C28: in the step in which reply_to_ai returns a log, the entry is stored
\* and its stored log is the returned one, whatever was interleaved while the
\* reply awaited the model.
C28_ReturnedIsStored ==
    [][\A r \in Requests :
           Returns(r, "reply") =>
               \E i \in 1..Len(rows') :
                   /\ rows'[i].id = reqs'[r].id
                   /\ rows'[i].conversations = reqs'[r].log]_vars

\* the text and the analysis columns of the two rows are the same
SameAnalysis(row, other) ==
    /\ row.text = other.text
    /\ row.summary = other.summary
    /\ row.sentiment_label = other.sentiment_label
    /\ row.sentiment_score = other.sentiment_score
    /\ row.emotions = other.emotions
    /\ row.primary_emotion = other.primary_emotion
    /\ row.tags = other.tags
    /\ row.comfort_message = other.comfort_message

\* C29: the write of an update leaves every stored conversation log as it is
\* and puts the update's text and analysis in its row; the write of a reply
\* leaves the text and the analysis columns of every row as they are and puts
\* the reply's turns at the end of its row's log.  So whichever of an update
\* and a reply on one entry writes last, the other's effect stays.
C29_NoOverwrite ==
    [][\A r \in Requests :
           /\ Returns(r, "update") =>
                  /\ Len(rows') = Len(rows)
                  /\ \A i \in 1..Len(rows) : rows'[i].conversations = rows[i].conversations
                  /\ \A i \in 1..Len(rows) :
                         rows[i].id = reqs[r].id =>
                             /\ rows'[i].text = reqs[r].text
                             /\ reqs'[r].ret # <<>>
                             /\ \A k \in 1..Len(reqs'[r].ret) :
                                    SameAnalysis(rows'[i], reqs'[r].ret[k])
           /\ Returns(r, "reply") =>
                  /\ Len(rows') = Len(rows)
                  /\ \A i \in 1..Len(rows) : SameAnalysis(rows'[i], rows[i])
                  /\ \A i \in 1..Len(rows) :
                         rows[i].id = reqs[r].id =>
                             /\ Len(rows'[i].conversations) >= 2
                             /\ SubSeq(rows'[i].conversations,
                                       Len(rows'[i].conversations) - 1,
                                       Len(rows'[i].conversations))
                                    = SubSeq(reqs'[r].log, Len(reqs'[r].log) - 1,
                                             Len(reqs'[r].log))]_vars

\* an update wrote the entry while a reply to it awaited the model, both have
\* returned, and the entry holds the update's text and the reply's turns
C29_Witness ==
    \E u, p \in Requests :
        /\ reqs[u].op = "update" /\ reqs[u].pc = "done" /\ reqs[u].ret # <<>>
        /\ reqs[p].op = "reply" /\ reqs[p].pc = "done" /\ reqs[p].id = reqs[u].id
        /\ reqs[u].id \in StoredIds
        /\ Len(reqs[p].log) = 3
        /\ reqs[p].log[2].timestamp < reqs[u].ret[1].updated_at
        /\ reqs[u].ret[1].updated_at < reqs[p].log[3].timestamp
        /\ RowOf(reqs[u].id).text = reqs[u].text
        /\ SameAnalysis(RowOf(reqs[u].id), reqs[u].ret[1])
        /\ RowOf(reqs[u].id).conversations = reqs[p].log

(***************************************************************************)
(* Properties of registration                                              *)
(***************************************************************************)
\* a stored user has the username or the email
Taken(username, email) ==
    \E i \in 1..Len(users) : users[i].username = username \/ users[i].email = email

\* C21: no two stored users share a username or an email, and a register
\* request with a well-formed body whose username or email a stored user
\* already has is answered 400 and leaves table users as it was
C21_Unique ==
    /\ [](\A i, j \in 1..Len(users) :
              i # j => /\ users[i].username # users[j].username
                       /\ users[i].email # users[j].email)
    /\ [][\A r \in Requests :
              /\ Called(r, "register")
              /\ reqs'[r].status # 422
              /\ Taken(reqs'[r].username, reqs'[r].email)
              => reqs'[r].status = 400 /\ users' = users]_vars

\* a request was rejected for its email alone, and one for its username
C21_Witness ==
    /\ users # <<>>
    /\ reqs["r1"].op = "register" /\ reqs["r1"].status = 400
    /\ \A i \in 1..Len(users) : users[i].username # reqs["r1"].username
    /\ \E i \in 1..Len(users) : users[i].email = reqs["r1"].email
    /\ reqs["r2"].op = "register" /\ reqs["r2"].status = 400
    /\ \E i \in 1..Len(users) : users[i].username = reqs["r2"].username

(***************************************************************************)
(* Properties of the API routes                                            *)
(***************************************************************************)
\* C22: a create request and a reply request that bring no text (the field
\* is missing, null or empty) are answered 422 without reaching the
\* service: the request never awaits the model, and the stored entries
\* with their conversation logs are as before; a request that brings a text
\* is not answered 422
C22_Validation ==
    [][\A r \in Requests :
           Called(r, "create") \/ Called(r, "reply")
           => IF reqs'[r].text = <<>>
              THEN /\ reqs'[r].status = 422
                   /\ reqs'[r].pc = "failed"
                   /\ rows' = rows
                   /\ Awaiting("create")' = Awaiting("create")
                   /\ Awaiting("reply")' = Awaiting("reply")
              ELSE reqs'[r].status # 422]_vars

\* both rejections have happened while an entry with its conversation is stored
C22_Witness ==
    /\ reqs["r1"].op = "create" /\ reqs["r1"].status = 422
    /\ reqs["r2"].op = "reply" /\ reqs["r2"].status = 422
    /\ reqs["r2"].id \in StoredIds
    /\ RowOf(reqs["r2"].id).conversations # <<>>

(***************************************************************************)
(* Properties of the web pages                                             *)
(***************************************************************************)
\* the entries a page showed all belong to the owner
ShowsOnly(r, owner) == \A i \in 1..Len(reqs[r].ret) : reqs[r].ret[i].user_id = owner

\* C24: a page (index, entries, stats) requested without a token that
\* decodes shows only entries whose owner is the default owner, never an
\* entry of another user
C24_AnonymousReads ==
    \A r \in Requests :
        /\ reqs[r].op \in Pages
        /\ GetUserIdFromCookie(reqs[r].cookie) = NoUser
        => ShowsOnly(r, DefaultUserId)

\* a page requested with the token of a user shows only entries of that user
LoggedInReads ==
    \A r \in Requests :
        /\ reqs[r].op \in Pages
        /\ GetUserIdFromCookie(reqs[r].cookie) # NoUser
        => ShowsOnly(r, GetUserIdFromCookie(reqs[r].cookie))

\* the stored users a cookie's token was issued to: none without a token
\* and for a token that jwt.decode rejects
Holders(cookie) ==
    {users[i].id : i \in {j \in 1..Len(users) : cookie = <<CreateAccessToken(users[j].id)>>}}

\* C27: a delete request of the web pages removes the entry of its id when
\* the token of the request was issued to the owner of the entry, and
\* otherwise (no token, a token that does not decode, a token of another
\* user) leaves every stored entry as it was; no registration, submission
\* or page read removes or changes a stored entry
C27_OwnerDeletes ==
    [][/\ \A r \in Requests :
              Called(r, "web_delete")
              => IF /\ reqs'[r].id \in StoredIds
                    /\ RowOf(reqs'[r].id).user_id \in Holders(reqs'[r].cookie)
                 THEN rows' = SelectSeq(rows, LAMBDA row : row.id # reqs'[r].id)
                 ELSE rows' = rows
       /\ \A i \in 1..Len(rows) :
              (\A j \in 1..Len(rows') : rows'[j] # rows[i])
              => \E r \in Requests :
                     /\ Called(r, "web_delete")
                     /\ reqs'[r].id = rows[i].id
                     /\ rows[i].user_id \in Holders(reqs'[r].cookie)]_vars

\* a logged-in user asked to delete the entry of another user, which is
\* still stored
C27_Witness ==
    /\ reqs["r1"].op = "web_delete"
    /\ reqs["r1"].id \in StoredIds
    /\ Holders(reqs["r1"].cookie) # {}
    /\ RowOf(reqs["r1"].id).user_id \notin Holders(reqs["r1"].cookie)

\* an owner has deleted an entry
C27_Deleted ==
    /\ reqs["r1"].op = "web_delete"
    /\ reqs["r1"].id \notin StoredIds
    /\ reqs["r1"].id <= lastrowid

====
